---- MODULE Spec2Model ----
(***************************************************************************)
(* SyntaxTree: labelled bracket notation -> tokens -> syntax tree ->       *)
(* positioned drawables -> routed arrows.                                  *)
(*                                                                         *)
(* Strings are sequences of one-character strings, so that the regular     *)
(* expressions and the character scans of the code are computed, not       *)
(* assumed.  Indices into strings and token arrays are 0-based as in the   *)
(* JavaScript source; CharAt and Tok do the translation.                   *)
(***************************************************************************)
EXTENDS Integers, Sequences, FiniteSets, TLC

VARIABLES input, offset, tokens, pc, err, tree, drawables, max_depth, has_arrow, arrowSet, opts,
          canvas, parse_error, updates

vars == <<input, offset, tokens, pc, err, tree, drawables, max_depth, has_arrow, arrowSet, opts,
          canvas, parse_error, updates>>

(***************************************************************************)
(* Bounds of the model.                                                    *)
(***************************************************************************)
\* longest input text given to tokenize
MaxInput == 4
\* longest token run drawn as the body of a phrase given to validateTokens / parse
MaxBody == 4

(***************************************************************************)
(* Strings.                                                                *)
(***************************************************************************)
\* JavaScript null / undefined where a string is expected
Null == <<"NULL">>

Str1(c) == <<c>>

CharAt(s, i) == IF i >= 0 /\ i < Len(s) THEN s[i + 1] ELSE ""

\* s.substring(from)
Substring(s, from) == SubSeq(s, from + 1, Len(s))

\* s.substring(from, to)
Substring2(s, from, to) == SubSeq(s, from + 1, to)

StartsWith(s, a, b) == Len(s) >= 2 /\ s[1] = a /\ s[2] = b

\* line terminators: the characters the regular expression dot does not match
IsNewline(ch) == ch \in {"\n", "\r"}

\* \s of the regular expressions, and what String.trim removes
IsSpace(ch) == ch \in {" ", "\t", "\n", "\r", "\f"}

NoNewline(s) == \A i \in 1..Len(s) : ~IsNewline(s[i])

RECURSIVE TrimLeft(_)
TrimLeft(s) ==
    IF s # <<>> /\ IsSpace(Head(s)) THEN TrimLeft(Tail(s)) ELSE s

RECURSIVE TrimRight(_)
TrimRight(s) ==
    IF s # <<>> /\ IsSpace(s[Len(s)]) THEN TrimRight(SubSeq(s, 1, Len(s) - 1)) ELSE s

Trim(s) == TrimLeft(TrimRight(s))

RECURSIVE JoinWith(_, _)
JoinWith(strs, sep) ==
    IF strs = <<>> THEN <<>>
    ELSE IF Len(strs) = 1 THEN strs[1]
    ELSE strs[1] \o sep \o JoinWith(Tail(strs), sep)

(***************************************************************************)
(* Tokenizer (tokenizer.js).                                               *)
(***************************************************************************)
Token(type, value) == [type |-> type, value |-> value]

\* the null token a parser function returns when it does not match
NoToken == Token("null", Null)

\* a thrown value: the message, the number it holds (a count or a token index) and,
\* for 'Unexpected <type> at idx <n>', the token type
Error(msg, n, what) == [msg |-> msg, n |-> n, what |-> what]

NoError == Error("", 0, "")

IsWhitespace(ch) == ch \in {" ", "\f", "\n", "\r", "\t"}

IsControlCharacter(ch) == ch \in {"[", "]", "^", "_", "\""}

Digits == <<"0", "1", "2", "3", "4", "5", "6", "7", "8", "9">>

IsNumber(ch) == \E d \in 1..10 : Digits[d] = ch

DigitValue(ch) == (CHOOSE d \in 1..10 : Digits[d] = ch) - 1

RECURSIVE ParseInt(_)
ParseInt(s) ==
    IF s = <<>> THEN 0
    ELSE 10 * ParseInt(SubSeq(s, 1, Len(s) - 1)) + DigitValue(s[Len(s)])

IsStringChar(ch) == ~IsWhitespace(ch) /\ ~IsControlCharacter(ch)

IsNotQuote(ch) == ch # "\""

\* the loop conditions of the four character scans
InClass(cls, ch) ==
    CASE cls = "whitespace" -> IsWhitespace(ch)
      [] cls = "number"     -> IsNumber(ch)
      [] cls = "string"     -> IsStringChar(ch)
      [] cls = "notquote"   -> IsNotQuote(ch)

\* `while (consumed < input.length && cond(input.charAt(consumed))) ++consumed`
RECURSIVE Run(_, _, _)
Run(inp, from, cls) ==
    IF from < Len(inp) /\ InClass(cls, CharAt(inp, from)) THEN Run(inp, from + 1, cls) ELSE from

TokResult(token, consumed, error) == [token |-> token, consumed |-> consumed, err |-> error]

SkipWhitespace(inp) == TokResult(NoToken, Run(inp, 0, "whitespace"), NoError)

\* parseControlCharacters without its two bracket cases
ParseScriptPrefixesOnly(inp) ==
    IF CharAt(inp, 0) = "_" THEN TokResult(Token("SUBSCRIPT_PREFIX", Null), 1, NoError)
    ELSE IF CharAt(inp, 0) = "^" THEN TokResult(Token("SUPERSCRIPT_PREFIX", Null), 1, NoError)
    ELSE TokResult(NoToken, 0, NoError)

ParseControlCharacters(inp) ==
    IF CharAt(inp, 0) = "_" THEN TokResult(Token("SUBSCRIPT_PREFIX", Null), 1, NoError)
    ELSE IF CharAt(inp, 0) = "^" THEN TokResult(Token("SUPERSCRIPT_PREFIX", Null), 1, NoError)
    ELSE IF CharAt(inp, 0) = "[" THEN TokResult(Token("BRACKET_OPEN", Null), 1, NoError)
    ELSE IF CharAt(inp, 0) = "]" THEN TokResult(Token("BRACKET_CLOSE", Null), 1, NoError)
    ELSE TokResult(NoToken, 0, NoError)

ParseArrows(inp) ==
    IF Len(inp) > 1 /\ StartsWith(inp, "-", ">") THEN TokResult(Token("ARROW_TO", Null), 2, NoError)
    ELSE IF Len(inp) > 1 /\ StartsWith(inp, "<", "-") THEN TokResult(Token("ARROW_FROM", Null), 2, NoError)
    ELSE IF Len(inp) > 1 /\ StartsWith(inp, "<", ">") THEN TokResult(Token("ARROW_BOTH", Null), 2, NoError)
    ELSE IF Len(inp) > 1 /\ StartsWith(inp, ".", ">") THEN TokResult(Token("ARROW_DOTTED_TO", Null), 2, NoError)
    ELSE TokResult(NoToken, 0, NoError)

ParseNumber(inp) ==
    LET consumed == Run(inp, 0, "number")
    IN  IF consumed > 0
        THEN TokResult(Token("NUMBER", ParseInt(Substring2(inp, 0, consumed))), consumed, NoError)
        ELSE TokResult(NoToken, 0, NoError)

ParseString(inp) ==
    LET consumed == Run(inp, 0, "string")
    IN  IF consumed > 0
        THEN TokResult(Token("STRING", Substring2(inp, 0, consumed)), consumed, NoError)
        ELSE TokResult(NoToken, 0, NoError)

\* parseQuotedString taking the end of the text for a closing quote
ParseQuotedStringToEnd(inp) ==
    IF CharAt(inp, 0) # "\"" THEN TokResult(NoToken, 0, NoError)
    ELSE LET consumed == Run(inp, 1, "notquote")
         IN  TokResult(Token("QUOTED_STRING", Substring2(inp, 1, consumed)),
                       IF CharAt(inp, consumed) # "\"" THEN consumed ELSE consumed + 1, NoError)

ParseQuotedString(inp) ==
    IF CharAt(inp, 0) # "\"" THEN TokResult(NoToken, 0, NoError)
    ELSE LET consumed == Run(inp, 1, "notquote")
         IN  IF CharAt(inp, consumed) # "\""
             THEN TokResult(NoToken, 0, Error("Unterminated quoted string. Missing \" after", 0, ""))
             ELSE TokResult(Token("QUOTED_STRING", Substring2(inp, 1, consumed)),
                            consumed + 1, NoError)

\* the list `parsers` of tokenize, in its order
NumParsers == 6

ParserAt(i, inp) ==
    CASE i = 1 -> SkipWhitespace(inp)
      [] i = 2 -> ParseControlCharacters(inp)
      [] i = 3 -> ParseArrows(inp)
      [] i = 4 -> ParseNumber(inp)
      [] i = 5 -> ParseString(inp)
      [] i = 6 -> ParseQuotedString(inp)

\* the for loop over `parsers` inside one iteration of the main loop, from parser i on
RECURSIVE RunParsers(_, _, _, _)
RunParsers(inp, off, toks, i) ==
    IF i > NumParsers THEN [offset |-> off, tokens |-> toks, err |-> NoError]
    ELSE LET r    == ParserAt(i, Substring(inp, off))
             off2 == off + r.consumed
             tk2  == IF r.token.type # "null" THEN Append(toks, r.token) ELSE toks
         IN  IF r.err # NoError THEN [offset |-> off, tokens |-> toks, err |-> r.err]
             ELSE IF off2 >= Len(inp) THEN [offset |-> off2, tokens |-> tk2, err |-> NoError]
             ELSE RunParsers(inp, off2, tk2, i + 1)

(***************************************************************************)
(* validateTokens (syntaxtree.js).                                         *)
(***************************************************************************)
\* tokens[i], 0-based
Tok(toks, i) == toks[i + 1]

\* countOpenBrackets without its decrement for a closing bracket
CountOpenBracketsOnly(toks) ==
    Cardinality({i \in 1..Len(toks) : toks[i].type = "BRACKET_OPEN"})

RECURSIVE CountOpenBrackets(_)
CountOpenBrackets(toks) ==
    IF toks = <<>> THEN 0
    ELSE CountOpenBrackets(SubSeq(toks, 1, Len(toks) - 1))
         + (IF toks[Len(toks)].type = "BRACKET_OPEN" THEN 1 ELSE 0)
         - (IF toks[Len(toks)].type = "BRACKET_CLOSE" THEN 1 ELSE 0)

Abs(n) == IF n < 0 THEN -n ELSE n

\* validateTokens without its count of the brackets
ValidateTokensWithoutCount(toks) ==
    IF Len(toks) < 3 THEN Error("Phrase too short", 0, "")
    ELSE IF Tok(toks, 0).type # "BRACKET_OPEN" \/ Tok(toks, Len(toks) - 1).type # "BRACKET_CLOSE"
         THEN Error("Phrase must start with [ and end with ]", 0, "")
    ELSE NoError

\* the value validateTokens throws, NoError when it returns null
ValidateTokens(toks) ==
    IF Len(toks) < 3 THEN Error("Phrase too short", 0, "")
    ELSE IF Tok(toks, 0).type # "BRACKET_OPEN" \/ Tok(toks, Len(toks) - 1).type # "BRACKET_CLOSE"
         THEN Error("Phrase must start with [ and end with ]", 0, "")
    ELSE LET brackets == CountOpenBrackets(toks)
         IN  IF brackets > 0 THEN Error("bracket(s) open [", brackets, "")
             ELSE IF brackets < 0 THEN Error("too many closed bracket(s) ]", Abs(brackets), "")
             ELSE NoError

(***************************************************************************)
(* Parser (parser.js).                                                     *)
(***************************************************************************)
RootLabel == <<"_", "_", "R", "O", "O", "T", "_", "_">>

RootNode(values) == [type |-> "ROOT", label |-> RootLabel, values |-> values]

NewNode(label, subscript, superscript) ==
    [type |-> "NODE", label |-> label, subscript |-> subscript, superscript |-> superscript,
     values |-> <<>>, features |-> <<>>, caseFeature |-> Null]

\* arrows: the empty sequence stands for `undefined`
NewValue(label, subscript, superscript, arrows, caseFeature) ==
    [type |-> "VALUE", label |-> label, subscript |-> subscript, superscript |-> superscript,
     arrows |-> arrows, caseFeature |-> caseFeature]

NoNode == [type |-> "none"]

\* what a parse function returns ([current, node]) or throws (err)
Parsed(current, node) == [ok |-> TRUE, current |-> current, node |-> node, err |-> NoError]

Thrown(error) == [ok |-> FALSE, current |-> 0, node |-> NoNode, err |-> error]

\* reading a property of tokens[i] for i outside the array: a TypeError
TypeError(i) == Error("TypeError: Cannot read properties of undefined", i, "")

IsStringToken(t) == t.type = "STRING" \/ t.type = "QUOTED_STRING"

IsPrefixToken(t) == t.type = "SUBSCRIPT_PREFIX" \/ t.type = "SUPERSCRIPT_PREFIX"

ArrowTypes == {"ARROW_TO", "ARROW_FROM", "ARROW_BOTH", "ARROW_DOTTED_TO"}

\* /^\+/.test(label)
IsFeatureLabel(label) == Len(label) >= 1 /\ label[1] = "+"

\* /^\{.*\}$/.test(label)
IsCaseLabel(label) ==
    /\ Len(label) >= 2
    /\ label[1] = "{"
    /\ label[Len(label)] = "}"
    /\ NoNewline(SubSeq(label, 2, Len(label) - 1))

AllSpace(s) == \A i \in 1..Len(s) : IsSpace(s[i])

\* the lengths i of group 1 with which /^(.*)\s*(\{.*\})$/ matches label: a prefix
\* without line terminator, then white space, then a brace group up to the end
CaseSplits(label) ==
    { i \in 0..Len(label) :
        /\ NoNewline(SubSeq(label, 1, i))
        /\ \E k \in i..(Len(label) - 2) :
              /\ AllSpace(SubSeq(label, i + 1, k))
              /\ IsCaseLabel(SubSeq(label, k + 1, Len(label))) }

Max(S) == CHOOSE x \in S : \A y \in S : y <= x

\* label.match(/^(.*)\s*(\{.*\})$/): group 1 is greedy, so it is the longest prefix
MatchTrailingCase(label) ==
    IF CaseSplits(label) = {} THEN [matched |-> FALSE, pre |-> <<>>, brace |-> <<>>]
    ELSE LET i == Max(CaseSplits(label))
             k == CHOOSE k \in i..(Len(label) - 2) :
                     /\ AllSpace(SubSeq(label, i + 1, k))
                     /\ IsCaseLabel(SubSeq(label, k + 1, Len(label)))
         IN  [matched |-> TRUE, pre |-> SubSeq(label, 1, i),
              brace |-> SubSeq(label, k + 1, Len(label))]

\* `if this value's label ends with {case}, split it` (parser.js 83-87)
SplitCase(value) ==
    LET m == MatchTrailingCase(value.label)
    IN  IF m.matched
        THEN [value EXCEPT !.label = Trim(m.pre), !.caseFeature = m.brace]
        ELSE value

\* a bare case leaf: attach it to the previous value (parser.js 67-79)
AttachCase(node, value) ==
    IF Len(node.values) > 0
    THEN LET n    == Len(node.values)
             prev == node.values[n]
         IN  IF prev.type = "VALUE" /\ prev.caseFeature = Null
             THEN LET m == MatchTrailingCase(prev.label)
                  IN  IF m.matched
                      THEN [node EXCEPT !.values[n].label = Trim(m.pre),
                                        !.values[n].caseFeature = m.brace]
                      ELSE [node EXCEPT !.values[n].caseFeature = value.label]
             ELSE node
    ELSE node

\* the body of `if (value) {...}` in parseNode: how a parsed child is filed
FileChild(node, value) ==
    IF value.type = "VALUE" /\ IsFeatureLabel(value.label)
    THEN [node EXCEPT !.features = Append(@, value.label)]
    ELSE IF value.type = "VALUE" /\ IsCaseLabel(value.label)
    THEN AttachCase(node, value)
    ELSE [node EXCEPT !.values = Append(@, SplitCase(value))]

\* the optional sub/superscript after a label, in parseNode and parseValue alike:
\* current after it, the two texts, or the error thrown
ParseScript(toks, current) ==
    IF current < Len(toks) - 1 /\ IsPrefixToken(Tok(toks, current))
    THEN LET is_super == Tok(toks, current).type = "SUPERSCRIPT_PREFIX"
             text     == Tok(toks, current + 1)
         IN  IF ~IsStringToken(text)
             THEN [ok |-> FALSE, current |-> current + 1, subscript |-> Null, superscript |-> Null,
                   err |-> Error("Expected subscript string after _ or ^", current + 1, "")]
             ELSE [ok |-> TRUE, current |-> current + 2,
                   subscript |-> IF is_super THEN Null ELSE text.value,
                   superscript |-> IF is_super THEN text.value ELSE Null,
                   err |-> NoError]
    ELSE [ok |-> TRUE, current |-> current, subscript |-> Null, superscript |-> Null,
          err |-> NoError]

\* the index after the run of STRING tokens that starts at current (parser.js 104-106)
RECURSIVE StringRunEnd(_, _)
StringRunEnd(toks, current) ==
    IF current < Len(toks) /\ Tok(toks, current).type = "STRING"
    THEN StringRunEnd(toks, current + 1)
    ELSE current

TokenValues(toks, from, to) == [i \in 1..(to - from) |-> Tok(toks, from + i - 1).value]

ArrowDirective(type, target, label) ==
    [ends   |-> [to   |-> type \in {"ARROW_TO", "ARROW_BOTH", "ARROW_DOTTED_TO"},
                 from |-> type \in {"ARROW_FROM", "ARROW_BOTH"}],
     target |-> target,
     label  |-> label,
     dotted |-> type = "ARROW_DOTTED_TO"]

ArrowsResult(ok, current, arrows, error) ==
    [ok |-> ok, current |-> current, arrows |-> arrows, err |-> error]

\* whether the token after a directive is the separating comma (parser.js 167)
IsComma(toks, current) ==
    /\ current < Len(toks)
    /\ Tok(toks, current).type = "STRING"
    /\ Tok(toks, current).value = <<",">>

\* the inner loop `while (arrowTypes.includes(tokens[current].type))` (parser.js 136-172);
\* broke tells whether it ended by `break`
RECURSIVE ArrowsInner(_, _, _)
ArrowsInner(toks, current, arrows) ==
    IF current >= Len(toks) THEN ArrowsResult(FALSE, current, arrows, TypeError(current))
    ELSE IF Tok(toks, current).type \notin ArrowTypes THEN ArrowsResult(TRUE, current, arrows, NoError)
    ELSE IF current + 1 >= Len(toks) THEN ArrowsResult(FALSE, current + 1, arrows, TypeError(current + 1))
    ELSE IF Tok(toks, current + 1).type # "NUMBER"
         THEN ArrowsResult(FALSE, current + 1, arrows,
                           Error("Expected column number after arrow", current + 1, ""))
    ELSE LET type      == Tok(toks, current).type
             target    == Tok(toks, current + 1).value
             hasLabel  == current + 2 < Len(toks) /\ IsStringToken(Tok(toks, current + 2))
             label     == IF hasLabel THEN Tok(toks, current + 2).value ELSE Null
             after     == IF hasLabel THEN current + 3 ELSE current + 2
             arrows2   == Append(arrows, ArrowDirective(type, target, label))
         IN  IF IsComma(toks, after)
             THEN ArrowsInner(toks, after + 1, arrows2)
             ELSE ArrowsResult(TRUE, after, arrows2, NoError)

\* the outer loop `while (current < tokens.length - 1)` (parser.js 131-176)
RECURSIVE ArrowsOuter(_, _, _)
ArrowsOuter(toks, current, arrows) ==
    IF current < Len(toks) - 1 /\ Tok(toks, current).type \in ArrowTypes
    THEN LET r == ArrowsInner(toks, current, arrows)
         IN  IF r.ok THEN ArrowsOuter(toks, r.current, r.arrows) ELSE r
    ELSE ArrowsResult(TRUE, current, arrows, NoError)

ParseValue(toks, current) ==
    LET isString == Tok(toks, current).type = "STRING"
        afterLbl == IF isString THEN StringRunEnd(toks, current) ELSE current + 1
        label    == IF isString
                    THEN JoinWith(TokenValues(toks, current, afterLbl), <<" ">>)
                    ELSE Tok(toks, current).value
        script   == ParseScript(toks, afterLbl)
        arr      == ArrowsOuter(toks, script.current, <<>>)
    IN  IF ~script.ok
        THEN Thrown([script.err EXCEPT !.msg = "Expected subscript string after _/^"])
        ELSE IF ~arr.ok THEN Thrown(arr.err)
        ELSE Parsed(arr.current,
                    NewValue(label, script.subscript, script.superscript, arr.arrows,
                             IF IsCaseLabel(label) THEN label ELSE Null))

RECURSIVE ParseToken(_, _)
RECURSIVE ParseNode(_, _)
RECURSIVE ParseChildren(_, _, _)

\* the loop `while (current < tokens.length && type !== BRACKET_CLOSE)` (parser.js 57-91)
ParseChildren(toks, current, node) ==
    IF current < Len(toks) /\ Tok(toks, current).type # "BRACKET_CLOSE"
    THEN LET r == ParseToken(toks, current)
         IN  IF r.ok THEN ParseChildren(toks, r.current, FileChild(node, r.node)) ELSE r
    ELSE Parsed(current, node)

ParseNode(toks, current) ==
    IF current > Len(toks) - 2 THEN Thrown(Error("Missing label after [", 0, ""))
    ELSE IF ~IsStringToken(Tok(toks, current + 1))
         THEN Thrown(Error("Expected label string after [", 0, ""))
    ELSE LET script == ParseScript(toks, current + 2)
         IN  IF ~script.ok THEN Thrown(script.err)
             ELSE LET node == NewNode(Tok(toks, current + 1).value,
                                      script.subscript, script.superscript)
                      body == ParseChildren(toks, script.current, node)
                  IN  IF ~body.ok THEN body
                      ELSE IF body.current >= Len(toks)
                           THEN Thrown(Error("Missing closing bracket ] ...", body.current - 1, ""))
                      ELSE Parsed(body.current + 1, body.node)

ParseToken(toks, current) ==
    LET type == Tok(toks, current).type
    IN  IF type = "BRACKET_OPEN" THEN ParseNode(toks, current)
        ELSE IF type \in {"STRING", "QUOTED_STRING"} THEN ParseValue(toks, current)
        ELSE Thrown(Error("Unexpected", current, type))

\* the loop of parse, from token current with the root children found so far
RECURSIVE ParseTop(_, _, _)
ParseTop(toks, current, values) ==
    IF current < Len(toks)
    THEN LET r == ParseToken(toks, current)
         IN  IF r.ok THEN ParseTop(toks, r.current, Append(values, r.node)) ELSE r
    ELSE Parsed(current, RootNode(values))

Parse(toks) == ParseTop(toks, 0, <<>>)

(***************************************************************************)
(* Layout and arrow routing (tree.js).  Lengths are exact, in units of     *)
(* 1/1000 pixel, so that the factors 3/4, 0.7, 1.1 and 1.4 stay integral;  *)
(* vscaler is in percent.                                                  *)
(***************************************************************************)
NODE_PADDING == 20

\* units per pixel
Px == 1000

\* width in pixels of one character, as canvas.textWidth measures it
CharWidth == 10

\* canvas.textWidth(text), in units
TextWidth(text) == CharWidth * Len(text) * Px

\* JavaScript truthiness of an optional string
Truthy(str) == str # Null /\ str # <<>>

IsValue(node) == node.type = "VALUE"

\* node.subscript, node.superscript, node.features, node.caseFeature, node.arrows of
\* a syntax node; a field the node does not have is undefined
SubscriptOf(node) == IF node.type = "ROOT" THEN Null ELSE node.subscript

SuperscriptOf(node) == IF node.type = "ROOT" THEN Null ELSE node.superscript

FeaturesOf(node) == IF node.type = "NODE" THEN node.features ELSE <<>>

CaseFeatureOf(node) == IF node.type = "ROOT" THEN Null ELSE node.caseFeature

ArrowsOf(node) == IF node.type = "VALUE" THEN node.arrows ELSE <<>>

ValuesOf(node) == IF node.type = "VALUE" THEN <<>> ELSE node.values

RECURSIVE SumSeq(_)
SumSeq(q) == IF q = <<>> THEN 0 ELSE Head(q) + SumSeq(Tail(q))

MaxOf(a, b) == IF a >= b THEN a ELSE b

MinOf(a, b) == IF a <= b THEN a ELSE b

\* '[' + caseFeature.slice(1, -1) + ']', cut after 100 characters (tree.js 371-374)
CaseText(caseFeature) ==
    LET text == <<"[">> \o SubSeq(caseFeature, 2, Len(caseFeature) - 1) \o <<"]">>
    IN  IF Len(text) > 100 THEN SubSeq(text, 1, 100) \o <<"...", "]">> ELSE text

RECURSIVE GetNodeWidth(_, _)
RECURSIVE GetChildWidth(_)

\* getNodeWidth(canvas, {...node, label: label})
GetNodeWidth(node, label) ==
    LET base     == IF node.type # "ROOT" THEN TextWidth(label) + NODE_PADDING * Px ELSE 0
        scripted == IF Truthy(SubscriptOf(node))
                    THEN base + (TextWidth(SubscriptOf(node)) * 3 * 2) \div 4
                    ELSE IF Truthy(SuperscriptOf(node))
                    THEN base + (TextWidth(SuperscriptOf(node)) * 3 * 2) \div 4
                    ELSE base
        featured == IF Len(FeaturesOf(node)) > 0
                    THEN MaxOf(scripted,
                               TextWidth(<<"[">> \o JoinWith(FeaturesOf(node), <<",", " ">>) \o <<"]">>))
                    ELSE scripted
        cased    == IF IsValue(node) /\ Truthy(node.caseFeature)
                    THEN MaxOf(featured,
                               (TextWidth(CaseText(node.caseFeature)) * 7) \div 10 + NODE_PADDING * Px)
                    ELSE featured
    IN  IF ~IsValue(node) THEN MaxOf(cased, GetChildWidth(node)) ELSE cased

\* getChildWidth counting the first child only
GetChildWidthOfFirst(node) ==
    IF IsValue(node) \/ Len(node.values) = 0 THEN 0
    ELSE GetNodeWidth(node.values[1], node.values[1].label)

GetChildWidth(node) ==
    IF IsValue(node) THEN 0
    ELSE SumSeq([i \in 1..Len(node.values) |-> GetNodeWidth(node.values[i], node.values[i].label)])

HasNewline(str) == ~NoNewline(str)

\* the start positions at which /\s*\{.*\}$/ matches in label
TrailingCaseStarts(label) ==
    { p \in 1..Len(label) :
        \E k \in (p - 1)..(Len(label) - 2) :
            /\ AllSpace(SubSeq(label, p, k))
            /\ IsCaseLabel(SubSeq(label, k + 1, Len(label))) }

Min(S) == CHOOSE x \in S : \A y \in S : x <= y

\* label.replace(/\s*\{.*\}$/, '')
RemoveTrailingCase(label) ==
    IF TrailingCaseStarts(label) = {} THEN label
    ELSE SubSeq(label, 1, Min(TrailingCaseStarts(label)) - 1)

\* the guard of tree.js 317: !/^.*$/.test(label) holds of the labels that hold a
\* line terminator, since the dot matches no line terminator
KeepsCaseFeature(node, isLeaf) ==
    /\ isLeaf
    /\ Truthy(CaseFeatureOf(node))
    /\ Truthy(node.label)
    /\ HasNewline(node.label)

\* left and top of a drawable that has not been positioned
Unset == -1

RECURSIVE DrawableFromNode(_, _, _)
DrawableFromNode(node, depth, forceLeaf) ==
    LET isLeaf == IF forceLeaf THEN node.type # "ROOT" /\ node.type # "NODE"
                  ELSE node.type = "VALUE"
        keeps  == KeepsCaseFeature(node, isLeaf)
        drawableLabel == IF keeps THEN Trim(RemoveTrailingCase(node.label)) ELSE node.label
    IN  [label       |-> drawableLabel,
         subscript   |-> SubscriptOf(node),
         superscript |-> SuperscriptOf(node),
         width       |-> GetNodeWidth(node, drawableLabel),
         depth       |-> depth,
         is_leaf     |-> isLeaf,
         arrows      |-> ArrowsOf(node),
         features    |-> FeaturesOf(node),
         caseFeature |-> IF keeps THEN node.caseFeature ELSE Null,
         children    |-> [i \in 1..Len(ValuesOf(node)) |->
                             DrawableFromNode(node.values[i], depth + 1, FALSE)],
         left        |-> Unset,
         top         |-> Unset]

RECURSIVE GetMaxDepth(_)
GetMaxDepth(drawable) ==
    LET sub == [i \in 1..Len(drawable.children) |-> GetMaxDepth(drawable.children[i])]
    IN  IF sub = <<>> THEN drawable.depth
        ELSE MaxOf(drawable.depth, Max({sub[i] : i \in 1..Len(sub)}))

RECURSIVE MoveLeafsToBottom(_, _)
MoveLeafsToBottom(drawable, bottom) ==
    [drawable EXCEPT
        !.depth = IF drawable.is_leaf THEN bottom ELSE @,
        !.children = [i \in 1..Len(drawable.children) |->
                         MoveLeafsToBottom(drawable.children[i], bottom)]]

\* Math.min() of no arguments, and what arithmetic makes of it
Infinity == 1000000000

Pred(depth) == IF depth = Infinity THEN Infinity ELSE depth - 1

RECURSIVE MoveParentsDown(_)
MoveParentsDown(drawable) ==
    IF drawable.is_leaf THEN drawable
    ELSE LET kids == [i \in 1..Len(drawable.children) |-> MoveParentsDown(drawable.children[i])]
             lowest == IF kids = <<>> THEN Infinity
                       ELSE Min({Pred(kids[i].depth) : i \in 1..Len(kids)})
         IN  [drawable EXCEPT !.children = kids,
                              !.depth = IF drawable.depth # 0 THEN lowest ELSE @]

\* the labels countNodes counts, one entry per counted node
RECURSIVE CountedLabels(_)
CountedLabels(drawable) ==
    IF drawable.is_leaf THEN <<>>
    ELSE LET own == IF ~Truthy(drawable.subscript) THEN <<drawable.label>> ELSE <<>>
             RECURSIVE Kids(_)
             Kids(i) == IF i > Len(drawable.children) THEN <<>>
                        ELSE CountedLabels(drawable.children[i]) \o Kids(i + 1)
         IN  own \o Kids(1)

\* the map countNodes returns, read at one label
CountNodes(drawable, label) ==
    Cardinality({i \in 1..Len(CountedLabels(drawable)) : CountedLabels(drawable)[i] = label})

\* '' + n
RECURSIVE NumberToString(_)
NumberToString(n) ==
    IF n < 10 THEN <<Digits[n + 1]>>
    ELSE NumberToString(n \div 10) \o <<Digits[(n % 10) + 1]>>

\* assignSubscripts numbering only the first node of each label
RECURSIVE AssignSubscriptsFirstOnly(_, _, _)
AssignSubscriptsFirstOnly(drawable, keys, tally) ==
    LET hit    == /\ ~drawable.is_leaf
                  /\ ~Truthy(drawable.subscript)
                  /\ ~Truthy(drawable.superscript)
                  /\ drawable.label \in keys
                  /\ tally[drawable.label] = 0
        tally1 == IF hit THEN [tally EXCEPT ![drawable.label] = @ + 1] ELSE tally
        own    == IF hit THEN [drawable EXCEPT !.subscript = <<"1">>] ELSE drawable
        RECURSIVE Kids(_, _, _)
        Kids(i, done, t) ==
            IF i > Len(drawable.children) THEN [children |-> done, tally |-> t]
            ELSE LET r == AssignSubscriptsFirstOnly(drawable.children[i], keys, t)
                 IN  Kids(i + 1, Append(done, r.drawable), r.tally)
        kids   == Kids(1, <<>>, tally1)
    IN  [drawable |-> [own EXCEPT !.children = kids.children], tally |-> kids.tally]

\* assignSubscripts: the drawable with its subscripts, and the tally after it
RECURSIVE AssignSubscripts(_, _, _)
AssignSubscripts(drawable, keys, tally) ==
    LET hit    == /\ ~drawable.is_leaf
                  /\ ~Truthy(drawable.subscript)
                  /\ ~Truthy(drawable.superscript)
                  /\ drawable.label \in keys
        tally1 == IF hit THEN [tally EXCEPT ![drawable.label] = @ + 1] ELSE tally
        own    == IF hit THEN [drawable EXCEPT !.subscript = NumberToString(tally1[drawable.label])]
                  ELSE drawable
        RECURSIVE Kids(_, _, _)
        Kids(i, done, t) ==
            IF i > Len(drawable.children) THEN [children |-> done, tally |-> t]
            ELSE LET r == AssignSubscripts(drawable.children[i], keys, t)
                 IN  Kids(i + 1, Append(done, r.drawable), r.tally)
        kids   == Kids(1, <<>>, tally1)
    IN  [drawable |-> [own EXCEPT !.children = kids.children], tally |-> kids.tally]

CalculateAutoSubscript(root) ==
    LET labels == {CountedLabels(root)[i] : i \in 1..Len(CountedLabels(root))}
        keys   == {l \in labels : CountNodes(root, l) # 1}
    IN  AssignSubscripts(root, keys, [l \in keys |-> 0]).drawable

\* child.depth * (canvas.fontsize * 3 * vscaler) + NODE_PADDING / 2
TopOf(depth, fontsize, vscaler) ==
    IF depth = Infinity THEN Infinity
    ELSE depth * fontsize * 3 * vscaler * (Px \div 100) + (NODE_PADDING * Px) \div 2

\* calculateDrawablePositions placing the children from 0, without the parent's offset
RECURSIVE CalculateDrawablePositionsFromZero(_, _, _, _)
CalculateDrawablePositionsFromZero(drawable, fontsize, vscaler, parent_offset) ==
    LET RECURSIVE Place(_, _, _)
        Place(i, done, off) ==
            IF i > Len(drawable.children) THEN done
            ELSE LET child  == drawable.children[i]
                     placed == [child EXCEPT !.top = TopOf(child.depth, fontsize, vscaler),
                                             !.left = off]
                     sub    == CalculateDrawablePositionsFromZero(placed, fontsize, vscaler,
                                                                  placed.left)
                 IN  Place(i + 1, Append(done, sub), off + sub.width)
    IN  [drawable EXCEPT !.children = Place(1, <<>>, 0)]

\* calculateDrawablePositions: the drawable with its descendants positioned (scale is
\* always 1, so widths are kept)
RECURSIVE CalculateDrawablePositions(_, _, _, _)
CalculateDrawablePositions(drawable, fontsize, vscaler, parent_offset) ==
    LET RECURSIVE Place(_, _, _)
        Place(i, done, off) ==
            IF i > Len(drawable.children) THEN done
            ELSE LET child  == drawable.children[i]
                     placed == [child EXCEPT !.top = TopOf(child.depth, fontsize, vscaler),
                                             !.left = off + parent_offset]
                     sub    == CalculateDrawablePositions(placed, fontsize, vscaler, placed.left)
                 IN  Place(i + 1, Append(done, sub), off + sub.width)
    IN  [drawable EXCEPT !.children = Place(1, <<>>, 0)]

\* the value calculateDrawablePositions returns: whether the drawable or one of its
\* descendants has arrows
RECURSIVE HasArrow(_)
HasArrow(drawable) ==
    \/ Len(drawable.arrows) > 0
    \/ \E i \in 1..Len(drawable.children) : HasArrow(drawable.children[i])

\* no drawable: null
NoDrawable == [label |-> Null]

IsNoDrawable(drawable) == drawable.label = Null

\* findTargetLeaf counting every drawable, not only the leaves
RECURSIVE FindTargetLeafCountingAll(_, _, _)
FindTargetLeafCountingAll(drawable, arrow_idx, count) ==
    LET count1 == count + 1
        RECURSIVE Kids(_, _)
        Kids(i, c) ==
            IF i > Len(drawable.children) THEN [count |-> c, target |-> [label |-> Null]]
            ELSE LET r == FindTargetLeafCountingAll(drawable.children[i], arrow_idx, c)
                 IN  IF r.target.label # Null THEN r ELSE Kids(i + 1, r.count)
    IN  IF drawable.is_leaf /\ count1 = arrow_idx
        THEN [count |-> count1, target |-> drawable]
        ELSE Kids(1, count1)

\* findTargetLeaf: [count, target], target NoDrawable for null
RECURSIVE FindTargetLeaf(_, _, _)
FindTargetLeaf(drawable, arrow_idx, count) ==
    LET count1 == IF drawable.is_leaf THEN count + 1 ELSE count
        RECURSIVE Kids(_, _)
        Kids(i, c) ==
            IF i > Len(drawable.children) THEN [count |-> c, target |-> NoDrawable]
            ELSE LET r == FindTargetLeaf(drawable.children[i], arrow_idx, c)
                 IN  IF ~IsNoDrawable(r.target) THEN r ELSE Kids(i + 1, r.count)
    IN  IF drawable.is_leaf /\ count1 = arrow_idx
        THEN [count |-> count1, target |-> drawable]
        ELSE Kids(1, count1)

FindTarget(drawable, arrow_idx) == FindTargetLeaf(drawable, arrow_idx, 0).target

\* getDrawableCenter
GetDrawableCenter(drawable) == drawable.left + drawable.width \div 2

RECURSIVE FindMaxDepthBetween(_, _, _, _)
FindMaxDepthBetween(drawable, left, right, max_y) ==
    LET RECURSIVE Kids(_, _)
        Kids(i, m) ==
            IF i > Len(drawable.children) THEN m
            ELSE Kids(i + 1, MaxOf(FindMaxDepthBetween(drawable.children[i], left, right, m), m))
        below == Kids(1, max_y)
    IN  IF drawable.is_leaf /\ drawable.left >= left /\ drawable.left <= right
        THEN MaxOf(drawable.top, below)
        ELSE below

\* String(label).split(/\\n|\n/).length: one more than the line breaks, written as
\* a line feed or as a backslash followed by n
LabelLines(label) ==
    1 + Cardinality({i \in 1..Len(label) :
                        \/ label[i] = "\n"
                        \/ label[i] = "\\" /\ i < Len(label) /\ label[i + 1] = "n"})

\* the y of the from / to anchor of a leaf (tree.js 506-518)
AnchorY(leaf, fontsize) ==
    leaf.top + (LabelLines(leaf.label) * fontsize * 11 * Px) \div 10 + 2 * Px
    + (IF Truthy(leaf.caseFeature) THEN (fontsize * 7 * Px) \div 10 + 2 * Px ELSE 0)

Arrow(from_x, from_y, to_x, to_y, bottom, ends_to, ends_from, label, dotted) ==
    [from_x |-> from_x, from_y |-> from_y, to_x |-> to_x, to_y |-> to_y, bottom |-> bottom,
     ends_to |-> ends_to, ends_from |-> ends_from,
     label |-> IF Truthy(label) THEN label ELSE Null, dotted |-> dotted]

\* new ArrowSet()
NewArrowSet == [arrows |-> <<>>, maxBottom |-> 0]

\* ArrowSet.add
ArrowSetAdd(set, arrow) ==
    [arrows |-> Append(set.arrows, arrow), maxBottom |-> MaxOf(set.maxBottom, arrow.bottom)]

\* ArrowSet.concatenate
ArrowSetConcatenate(set, other) ==
    [arrows |-> set.arrows \o other.arrows, maxBottom |-> MaxOf(set.maxBottom, other.maxBottom)]

\* the routed arrow of one directive of a leaf, given its target (tree.js 505-526)
RouteArrow(root, drawable, arrowObj, target, fontsize) ==
    Arrow(GetDrawableCenter(drawable), AnchorY(drawable, fontsize),
          GetDrawableCenter(target), AnchorY(target, fontsize),
          (14 * FindMaxDepthBetween(root, MinOf(drawable.left, target.left),
                                    MaxOf(drawable.left, target.left), 0)) \div 10,
          arrowObj.ends.to, arrowObj.ends.from, arrowObj.label, arrowObj.dotted)

RECURSIVE MakeArrowSetOn(_, _, _)
MakeArrowSetOn(root, drawable, fontsize) ==
    LET RECURSIVE Kids(_, _)
        Kids(i, set) ==
            IF i > Len(drawable.children) THEN set
            ELSE Kids(i + 1, ArrowSetConcatenate(set,
                                 MakeArrowSetOn(root, drawable.children[i], fontsize)))
        RECURSIVE Own(_, _)
        Own(j, set) ==
            IF j > Len(drawable.arrows) THEN set
            ELSE LET target == FindTarget(root, drawable.arrows[j].target)
                 IN  IF IsNoDrawable(target) THEN Own(j + 1, set)
                     ELSE Own(j + 1, ArrowSetAdd(set,
                              RouteArrow(root, drawable, drawable.arrows[j], target, fontsize)))
        below == Kids(1, NewArrowSet)
    IN  IF ~drawable.is_leaf \/ Len(drawable.arrows) = 0 THEN below ELSE Own(1, below)

MakeArrowSet(root, fontsize) == MakeArrowSetOn(root, root, fontsize)

\* labelPadding and maxTries of drawArrows
labelPadding == 4
maxTries == 15

\* drawArrows is computed in tenths of a pixel, which holds the anchors and control
\* heights of the font sizes and spacings drawn here exactly; the label boxes are kept
\* in eighths of a tenth, in which the point of a curve at t = 0.5 (weights 1/8, 3/8,
\* 3/8, 1/8) is a whole number
Eighth == 8

Tenth == Px \div 10

InTenths(arrow) ==
    [arrow EXCEPT !.from_x = @ \div Tenth, !.from_y = @ \div Tenth, !.to_x = @ \div Tenth,
                  !.to_y = @ \div Tenth, !.bottom = @ \div Tenth]

\* labelYOffset = fontsize * 0.8, in eighths of a tenth
LabelYOffset(fontsize) == Eighth * fontsize * 8

\* 8000 times bezier(k / 20, p0, p1, p2, p3)
Bezier(k, p0, p1, p2, p3) ==
    LET mt == 20 - k
    IN  mt * mt * mt * p0 + 3 * mt * mt * k * p2 + 3 * mt * k * k * p3 + k * k * k * p1

\* rect before the placement loop: the label box at the midpoint of the curve
LabelRect(arrow, fontsize) ==
    LET a           == InTenths(arrow)
        mx          == Bezier(10, a.from_x, a.to_x, a.from_x, a.to_x) \div 1000
        my          == Bezier(10, a.from_y, a.to_y, a.bottom, a.bottom) \div 1000
        labelWidth  == Eighth * (TextWidth(arrow.label) \div Tenth)
        labelHeight == (Eighth * fontsize * 75) \div 10
    IN  [x |-> mx - labelWidth \div 2, y |-> my, width |-> labelWidth, height |-> labelHeight]

\* labelPadding in eighths of a tenth
Padding == Eighth * labelPadding * 10

\* the test of overlapsAnyLabel on two boxes: they are less than the padding apart
PaddedBoxesMeet(r, lr) ==
    ~(\/ r.x + r.width + Padding < lr.x
      \/ r.x > lr.x + lr.width + Padding
      \/ r.y + r.height + Padding < lr.y
      \/ r.y > lr.y + lr.height + Padding)

\* overlapsAnyLabel
OverlapsAnyLabel(r, labelRects) ==
    \E i \in 1..Len(labelRects) : PaddedBoxesMeet(r, labelRects[i])

\* the points of the curve that overlapsCurve samples, 8000 times their coordinates: tt
\* runs over 0.0, 0.05, ..., twenty points, since the floating-point sum of twenty
\* steps of 0.05 is above 1.0
CurvePoints(arrow) ==
    LET a == InTenths(arrow)
    IN  [k \in 1..20 |-> [x |-> Bezier(k - 1, a.from_x, a.to_x, a.from_x, a.to_x),
                          y |-> Bezier(k - 1, a.from_y, a.to_y, a.bottom, a.bottom)]]

\* pointInRect on a sampled point of the curve: "in" the box, "out" of it, or on its
\* "edge", where the rounding of the floating-point sums decides
PointInRect(x, y, rect) ==
    LET x0 == 1000 * rect.x
        x1 == 1000 * (rect.x + rect.width)
        y0 == 1000 * rect.y
        y1 == 1000 * (rect.y + rect.height)
    IN  IF x > x0 /\ x < x1 /\ y > y0 /\ y < y1 THEN "in"
        ELSE IF x >= x0 /\ x <= x1 /\ y >= y0 /\ y <= y1 THEN "edge"
        ELSE "out"

\* overlapsCurve: "yes", "no", or "either" when sampled points lie on the edge of the
\* box and none inside
OverlapsCurve(points, r) ==
    LET where == {PointInRect(points[k].x, points[k].y, r) : k \in 1..Len(points)}
    IN  IF "in" \in where THEN "yes"
        ELSE IF "edge" \in where THEN "either"
        ELSE "no"

\* the placement loop looking at the curve only, not at the labels placed before
RECURSIVE PlacementLoopCurveOnly(_, _, _, _, _)
PlacementLoopCurveOnly(points, rect, labelRects, fontsize, tries) ==
    LET r     == [rect EXCEPT !.y = @ + tries * LabelYOffset(fontsize)]
        curve == OverlapsCurve(points, r)
    IN  IF tries >= maxTries THEN {tries}
        ELSE IF curve = "yes"
        THEN PlacementLoopCurveOnly(points, rect, labelRects, fontsize, tries + 1)
        ELSE IF curve = "either"
        THEN {tries} \cup PlacementLoopCurveOnly(points, rect, labelRects, fontsize, tries + 1)
        ELSE {tries}

\* the placement loop (tree.js 239-243) on the sampled points of the curve: the numbers
\* of tries it can end with
RECURSIVE PlacementLoop(_, _, _, _, _)
PlacementLoop(points, rect, labelRects, fontsize, tries) ==
    LET r == [rect EXCEPT !.y = @ + tries * LabelYOffset(fontsize)]
    IN  IF tries >= maxTries THEN {tries}
        ELSE IF OverlapsAnyLabel(r, labelRects)
        THEN PlacementLoop(points, rect, labelRects, fontsize, tries + 1)
        ELSE LET curve == OverlapsCurve(points, r)
             IN  IF curve = "yes"
                 THEN PlacementLoop(points, rect, labelRects, fontsize, tries + 1)
                 ELSE IF curve = "either"
                 THEN {tries} \cup PlacementLoop(points, rect, labelRects, fontsize, tries + 1)
                 ELSE {tries}

\* the box pushed on labelRects (tree.js 247), with the index of its arrow and the
\* number of shifts that placed it
PlacedLabel(arrow, idx, fontsize, tries) ==
    LET rect == LabelRect(arrow, fontsize)
    IN  [x |-> rect.x, y |-> rect.y + tries * LabelYOffset(fontsize),
         width |-> rect.width, height |-> rect.height, idx |-> idx, tries |-> tries]

\* drawArrows from arrow idx on: the label boxes it can leave in labelRects
RECURSIVE DrawArrowsFrom(_, _, _, _)
DrawArrowsFrom(arrows, idx, labelRects, fontsize) ==
    IF idx > Len(arrows) THEN {labelRects}
    ELSE IF ~Truthy(arrows[idx].label)
    THEN DrawArrowsFrom(arrows, idx + 1, labelRects, fontsize)
    ELSE UNION {DrawArrowsFrom(arrows, idx + 1,
                               Append(labelRects, PlacedLabel(arrows[idx], idx, fontsize, t)),
                               fontsize)
                  : t \in PlacementLoop(CurvePoints(arrows[idx]),
                                        LabelRect(arrows[idx], fontsize),
                                        labelRects, fontsize, 0)}

DrawArrows(arrows, fontsize) == DrawArrowsFrom(arrows, 1, <<>>, fontsize)

(***************************************************************************)
(* Inputs.                                                                 *)
(***************************************************************************)
\* the characters of the input texts: a control character, the quote, the characters
\* of the four arrow operators, a digit, a letter and white space
Chars == {"[", "\"", "-", ">", "<", ".", "1", "a", " "}

SeqsUpTo(S, n) == UNION {[1..m -> S] : m \in 0..n}

Texts == SeqsUpTo(Chars, MaxInput)

BO == Token("BRACKET_OPEN", Null)
BC == Token("BRACKET_CLOSE", Null)
SUB == Token("SUBSCRIPT_PREFIX", Null)
STR(v) == Token("STRING", v)
QSTR(v) == Token("QUOTED_STRING", v)
NUM(n) == Token("NUMBER", n)
ARROW(type) == Token(type, Null)

\* tokens of phrases about features and case markers: [ ] A {x} {y} +f " +f{x}" _
CaseTokens ==
    {BO, BC, SUB, STR(<<"A">>), STR(<<"{", "x", "}">>), STR(<<"{", "y", "}">>),
     STR(<<"+", "f">>), QSTR(<<" ", "+", "f", "{", "x", "}">>)}

\* tokens of phrases about arrow directives: A , 1 -> .> _
ArrowTokens ==
    {STR(<<"A">>), STR(<<",">>), NUM(1), ARROW("ARROW_TO"), ARROW("ARROW_DOTTED_TO"), SUB}

\* token arrays given to validateTokens and parse: a bare body, a body inside [A ... ],
\* a leaf followed by a body, bare or inside [A ... ], and a leaf with one directive
\* followed by a body inside [A ... ]
ParseInputs ==
    LET A == STR(<<"A">>)
        caseBodies  == SeqsUpTo(CaseTokens, MaxBody)
        arrowBodies == SeqsUpTo(ArrowTokens, MaxBody)
    IN  caseBodies
        \cup {<<BO, A>> \o b \o <<BC>> : b \in caseBodies}
        \cup {<<A>> \o b : b \in arrowBodies}
        \cup {<<BO, A, A>> \o b \o <<BC>> : b \in arrowBodies}
        \cup {<<BO, A, A, ARROW("ARROW_TO"), NUM(1)>> \o b \o <<BC>> : b \in arrowBodies}

NoTree == NoNode

NoArrowSet == NewArrowSet

\* the canvas before anything is drawn on it
Blank == [nodes |-> NoDrawable, arrows |-> <<>>, labelRects |-> <<>>]

\* the fields the Tree constructor sets (tree.js 16-22); vscaler in percent
DefaultOpts == [fontsize |-> 16, subscript |-> TRUE, alignment |-> 0, vscaler |-> 100]

(***************************************************************************)
(* tokenize: one action per iteration of its main loop.                    *)
(***************************************************************************)
InitTokenize ==
    /\ input \in Texts
    /\ offset = 0
    /\ tokens = <<>>
    /\ pc = "tokenize"
    /\ err = NoError
    /\ tree = NoTree
    /\ drawables = NoDrawable
    /\ max_depth = 0
    /\ has_arrow = FALSE
    /\ arrowSet = NoArrowSet
    /\ opts = DefaultOpts
    /\ canvas = Blank
    /\ parse_error = NoError
    /\ updates = 0

\* one iteration of `while (offset < input.length)` (tokenizer.js 41-54)
TokenizeStep ==
    /\ pc = "tokenize"
    /\ offset < Len(input)
    /\ LET r == RunParsers(input, offset, tokens, 1)
       IN  IF r.err # NoError
           THEN /\ pc' = "tokenize_failed"
                /\ err' = r.err
                /\ UNCHANGED <<offset, tokens>>
           ELSE IF r.offset = offset
           THEN /\ pc' = "tokenize_failed"
                /\ err' = Error("Unable to parse", offset, "")
                /\ UNCHANGED <<offset, tokens>>
           ELSE /\ offset' = r.offset
                /\ tokens' = r.tokens
                /\ UNCHANGED <<pc, err>>
    /\ UNCHANGED <<input, tree, drawables, max_depth, has_arrow, arrowSet, opts,
                 canvas, parse_error, updates>>

\* the loop ends and tokenize returns the tokens (tokenizer.js 41, 56)
TokenizeReturn ==
    /\ pc = "tokenize"
    /\ offset >= Len(input)
    /\ pc' = "tokenized"
    /\ UNCHANGED <<input, offset, tokens, err, tree, drawables, max_depth, has_arrow, arrowSet, opts,
                 canvas, parse_error, updates>>

NextTokenize == TokenizeStep \/ TokenizeReturn

SpecTokenize == InitTokenize /\ [][NextTokenize]_vars

\* tokenize is one synchronous call: its loop goes on until it returns or throws
\* TokenizeStep is enabled exactly when the loop condition holds (each of its branches
\* changes pc or offset), so its weak fairness is written with that condition
TokenizeStepEnabled == pc = "tokenize" /\ offset < Len(input)

SpecTokenizeFair ==
    /\ SpecTokenize
    /\ WF_vars(TokenizeReturn)
    /\ ([]<>(~TokenizeStepEnabled) \/ []<><<TokenizeStep>>_vars)

(***************************************************************************)
(* validateTokens and parse on a token array.                              *)
(***************************************************************************)
InitParse ==
    /\ input = <<>>
    /\ offset = 0
    /\ tokens \in ParseInputs
    /\ pc = "tokenized"
    /\ err = NoError
    /\ tree = NoTree
    /\ drawables = NoDrawable
    /\ max_depth = 0
    /\ has_arrow = FALSE
    /\ arrowSet = NoArrowSet
    /\ opts = DefaultOpts
    /\ canvas = Blank
    /\ parse_error = NoError
    /\ updates = 0

\* validateTokens(tokens) with its error dropped: update goes on to parse
ValidateAndGoOn ==
    /\ pc = "tokenized"
    /\ pc' = "validated"
    /\ UNCHANGED <<input, offset, tokens, err, tree, drawables, max_depth, has_arrow, arrowSet,
                   opts, canvas, parse_error, updates>>

\* validateTokens(tokens) in update (syntaxtree.js 160)
Validate ==
    /\ pc = "tokenized"
    /\ LET e == ValidateTokens(tokens)
       IN  IF e = NoError
           THEN pc' = "validated" /\ err' = err
           ELSE pc' = "rejected" /\ err' = e
    /\ UNCHANGED <<input, offset, tokens, tree, drawables, max_depth, has_arrow, arrowSet, opts,
                 canvas, parse_error, updates>>

\* Parser.parse(tokens): in update after validateTokens (syntaxtree.js 162), or called
\* as the exported function on any token array (parser.js 11)
ParseTokens ==
    /\ pc \in {"tokenized", "validated"}
    /\ LET r == Parse(tokens)
       IN  IF r.ok
           THEN pc' = "parsed" /\ tree' = r.node /\ err' = err
           ELSE pc' = "parse_failed" /\ err' = r.err /\ tree' = tree
    /\ UNCHANGED <<input, offset, tokens, drawables, max_depth, has_arrow, arrowSet, opts,
                 canvas, parse_error, updates>>

NextParse == Validate \/ ParseTokens

SpecParse == InitParse /\ [][NextParse]_vars

(***************************************************************************)
(* Tree.draw on the tree parsed from a phrase, one action per statement.   *)
(***************************************************************************)
\* most leaves of a drawn phrase
MaxLeaves == 3

\* largest arrow target written in a drawn phrase: one past the leaves
MaxTarget == MaxLeaves + 1

RECURSIVE Concat(_)
Concat(seqs) == IF seqs = <<>> THEN <<>> ELSE Head(seqs) \o Concat(Tail(seqs))

\* the token runs of one leaf of a drawn phrase:  "a"   "a" {x}   [B "a<newline>b" {x}]
\* "a" ->k   "a{x}" <>k l , .>1
LeafRuns ==
    LET a   == QSTR(<<"a">>)
        x   == STR(<<"{", "x", "}">>)
        ab  == QSTR(<<"a", "\n", "b">>)
        ax  == QSTR(<<"a", "{", "x", "}">>)
    IN  {<<a>>, <<a, x>>, <<BO, STR(<<"B">>), ab, x, BC>>}
        \cup {<<a, ARROW("ARROW_TO"), NUM(k)>> : k \in 0..MaxTarget}
        \cup {<<ax, ARROW("ARROW_BOTH"), NUM(k), STR(<<"l">>), STR(<<",">>),
                 ARROW("ARROW_DOTTED_TO"), NUM(1)>> : k \in 0..MaxTarget}

\* the phrases [A leaf ... leaf] of at most MaxLeaves leaves, as tokens
DrawPhrases ==
    {<<BO, STR(<<"A">>)>> \o Concat(runs) \o <<BC>> : runs \in SeqsUpTo(LeafRuns, MaxLeaves)}

InitDraw ==
    /\ input = <<>>
    /\ offset = 0
    /\ tokens \in DrawPhrases
    /\ pc = "tokenized"
    /\ err = NoError
    /\ tree = NoTree
    /\ drawables = NoDrawable
    /\ max_depth = 0
    /\ has_arrow = FALSE
    /\ arrowSet = NoArrowSet
    /\ opts = DefaultOpts
    /\ canvas = Blank
    /\ parse_error = NoError
    /\ updates = 0

\* drawableFromNode and getMaxDepth (tree.js 35-36)
BuildDrawables ==
    /\ pc = "parsed"
    /\ drawables' = DrawableFromNode(tree, -1, FALSE)
    /\ max_depth' = GetMaxDepth(drawables')
    /\ pc' = "built"
    /\ UNCHANGED <<input, offset, tokens, err, tree, has_arrow, arrowSet, opts,
                 canvas, parse_error, updates>>

\* the alignment adjustment (tree.js 37-38)
Align ==
    /\ pc = "built"
    /\ LET leafs == IF opts.alignment > 0 THEN MoveLeafsToBottom(drawables, max_depth)
                    ELSE drawables
       IN  drawables' = IF opts.alignment > 1 THEN MoveParentsDown(leafs) ELSE leafs
    /\ pc' = "aligned"
    /\ UNCHANGED <<input, offset, tokens, err, tree, max_depth, has_arrow, arrowSet, opts,
                 canvas, parse_error, updates>>

\* if (this.subscript) calculateAutoSubscript(drawables) (tree.js 39)
AutoSubscript ==
    /\ pc = "aligned"
    /\ drawables' = IF opts.subscript THEN CalculateAutoSubscript(drawables) ELSE drawables
    /\ pc' = "subscripted"
    /\ UNCHANGED <<input, offset, tokens, err, tree, max_depth, has_arrow, arrowSet, opts,
                 canvas, parse_error, updates>>

\* calculateDrawablePositions (tree.js 41)
Position ==
    /\ pc = "subscripted"
    /\ drawables' = CalculateDrawablePositions(drawables, opts.fontsize, opts.vscaler, 0)
    /\ has_arrow' = HasArrow(drawables)
    /\ pc' = "positioned"
    /\ UNCHANGED <<input, offset, tokens, err, tree, max_depth, arrowSet, opts,
                 canvas, parse_error, updates>>

\* makeArrowSet (tree.js 42)
Route ==
    /\ pc = "positioned"
    /\ arrowSet' = MakeArrowSet(drawables, opts.fontsize)
    /\ pc' = "routed"
    /\ UNCHANGED <<input, offset, tokens, err, tree, drawables, max_depth, has_arrow, opts,
                 canvas, parse_error, updates>>

\* resizeCanvas, drawNode and drawArrows (tree.js 45-52): the canvas is cleared and
\* the nodes, the arrows and their labels are drawn on it
Render ==
    /\ pc = "routed"
    /\ \E labelRects \in DrawArrows(arrowSet.arrows, opts.fontsize) :
          canvas' = [nodes |-> drawables, arrows |-> arrowSet.arrows, labelRects |-> labelRects]
    /\ pc' = "drawn"
    /\ UNCHANGED <<input, offset, tokens, err, tree, drawables, max_depth, has_arrow, arrowSet,
                   opts, parse_error, updates>>

NextDraw ==
    Validate \/ ParseTokens \/ BuildDrawables \/ Align \/ AutoSubscript \/ Position \/ Route
        \/ Render

SpecDraw == InitDraw /\ [][NextDraw]_vars

(***************************************************************************)
(* Tree.draw on phrases of nested nodes, under the options of the page.    *)
(***************************************************************************)
\* most children of the first top-level node of a phrase
MaxKids == 2

SUP == Token("SUPERSCRIPT_PREFIX", Null)

\* the children a node is given, as tokens: a leaf, nodes with and without children,
\* with a subscript, a superscript, a feature or a long label, a leaf of two lines with a
\* case marker, and leaves with arrow directives
Subtrees ==
    LET c  == STR(<<"c">>)
        s  == STR(<<"s">>)
        A  == STR(<<"A">>)
        B  == STR(<<"B">>)
    IN  {<<c>>,
         <<BO, B, BC>>,
         <<BO, A, BO, B, BC, BC>>,
         <<BO, B, SUP, s, c, BC>>,
         <<BO, B, SUB, s, c, BC>>,
         <<BO, B, BO, A, c, BC, c, BC>>,
         <<BO, B, QSTR(<<"a", "\n", "b", "{", "y", "}">>), STR(<<"{", "x", "}">>), BC>>,
         <<BO, STR(<<"W", "I", "D", "E", "R">>), STR(<<"+", "f", "e", "a", "t", "u", "r", "e">>), c, BC>>,
         <<BO, A, QSTR(<<"a", "\n", "b">>), ARROW("ARROW_TO"), NUM(1), BC>>,
         <<BO, A, c, ARROW("ARROW_BOTH"), NUM(2), STR(<<"l">>), BC>>}

\* what follows the first top-level node: nothing, or further top-level nodes
Tails ==
    LET c  == STR(<<"c">>)
        A  == STR(<<"A">>)
        B  == STR(<<"B">>)
    IN  {<<>>, <<BO, A, c, BC>>, <<BO, B, BO, A, c, BC, BC>>}

LayoutPhrases ==
    {<<BO, STR(<<"A">>)>> \o Concat(kids) \o <<BC>> \o tail :
        kids \in SeqsUpTo(Subtrees, MaxKids), tail \in Tails}

\* font size and spacing (in percent) as the page can set them: the smallest of both,
\* the defaults, the largest of both
Scales == {<<12, 75>>, <<16, 100>>, <<36, 150>>}

\* the options the page can set: font size and spacing, alignments 0..2, the
\* auto-subscript checkbox
LayoutOpts ==
    {[fontsize |-> sc[1], subscript |-> sub, alignment |-> al, vscaler |-> sc[2]] :
        sc \in Scales, sub \in BOOLEAN, al \in {0, 1, 2}}

InitLayout ==
    /\ input = <<>>
    /\ offset = 0
    /\ tokens \in LayoutPhrases
    /\ pc = "tokenized"
    /\ err = NoError
    /\ tree = NoTree
    /\ drawables = NoDrawable
    /\ max_depth = 0
    /\ has_arrow = FALSE
    /\ arrowSet = NoArrowSet
    /\ opts \in LayoutOpts
    /\ canvas = Blank
    /\ parse_error = NoError
    /\ updates = 0

SpecLayout == InitLayout /\ [][NextDraw]_vars

(***************************************************************************)
(* Tree.draw on phrases whose first leaf has many labelled arrows.         *)
(***************************************************************************)
\* most labelled directives on the first leaf
MaxLabels == 9

\* n copies of a run of tokens
RECURSIVE Repeat(_, _)
Repeat(run, n) == IF n = 0 THEN <<>> ELSE run \o Repeat(run, n - 1)

\* the labelled directives of the first leaf:  -> 1 l  (to itself)   -> 2 ll
ToSelf == <<ARROW("ARROW_TO"), NUM(1), STR(<<"l">>)>>

ToNext == <<ARROW("ARROW_TO"), NUM(2), STR(<<"l", "l">>)>>

\* the phrases [A a .>2 directives b] and [A a directives b], as tokens: the
\* directives are some -> 1 l followed by some -> 2 ll, or the other way round
ArrowPhrases ==
    {<<BO, STR(<<"A">>), QSTR(<<"a">>)>> \o pre \o ds \o <<QSTR(<<"b">>), BC>>
        : pre \in {<<>>, <<ARROW("ARROW_DOTTED_TO"), NUM(2)>>},
          ds \in UNION {{Repeat(ToSelf, nm[1]) \o Repeat(ToNext, nm[2]),
                         Repeat(ToNext, nm[2]) \o Repeat(ToSelf, nm[1])}
                           : nm \in {p \in (0..MaxLabels) \X (0..MaxLabels)
                                        : p[1] + p[2] <= MaxLabels}}}

InitArrows ==
    /\ input = <<>>
    /\ offset = 0
    /\ tokens \in ArrowPhrases
    /\ pc = "tokenized"
    /\ err = NoError
    /\ tree = NoTree
    /\ drawables = NoDrawable
    /\ max_depth = 0
    /\ has_arrow = FALSE
    /\ arrowSet = NoArrowSet
    /\ opts \in {[DefaultOpts EXCEPT !.fontsize = sc[1], !.vscaler = sc[2]] : sc \in Scales}
    /\ canvas = Blank
    /\ parse_error = NoError
    /\ updates = 0

SpecArrows == InitArrows /\ [][NextDraw]_vars

(***************************************************************************)
(* update: runs of the whole pipeline on the text of the page.             *)
(***************************************************************************)
\* most runs of update
MaxUpdates == 2

\* the texts typed into the page:  [a b]   [a b ->1 l]   [a "b]   [a b   [[a]]   [a b] c
UpdateTexts ==
    {<<"[", "a", " ", "b", "]">>,
     <<"[", "a", " ", "b", " ", "-", ">", "1", " ", "l", "]">>,
     <<"[", "a", " ", "\"", "b", "]">>,
     <<"[", "a", " ", "b">>,
     <<"[", "[", "a", "]", "]">>,
     <<"[", "a", " ", "b", "]", " ", "c">>}

InitUpdate ==
    /\ input = <<>>
    /\ offset = 0
    /\ tokens = <<>>
    /\ pc = "idle"
    /\ err = NoError
    /\ tree = NoTree
    /\ drawables = NoDrawable
    /\ max_depth = 0
    /\ has_arrow = FALSE
    /\ arrowSet = NoArrowSet
    /\ opts = DefaultOpts
    /\ canvas = Blank
    /\ parse_error = NoError
    /\ updates = 0

\* update is called: it reads the text, empties the parse-error element and calls
\* tokenize (syntaxtree.js 155-159)
Update ==
    /\ pc = "idle"
    /\ updates < MaxUpdates
    /\ \E phrase \in UpdateTexts : input' = phrase
    /\ parse_error' = NoError
    /\ offset' = 0
    /\ tokens' = <<>>
    /\ err' = NoError
    /\ tree' = NoTree
    /\ drawables' = NoDrawable
    /\ max_depth' = 0
    /\ has_arrow' = FALSE
    /\ arrowSet' = NoArrowSet
    /\ pc' = "tokenize"
    /\ updates' = updates + 1
    /\ UNCHANGED <<opts, canvas>>

\* Parser.parse(tokens) after validateTokens has returned (syntaxtree.js 160-162)
ParseValidated == pc = "validated" /\ ParseTokens

\* catch (err): the error goes into the parse-error element (syntaxtree.js 164-166)
Catch ==
    /\ pc \in {"tokenize_failed", "rejected", "parse_failed"}
    /\ parse_error' = err
    /\ pc' = "idle"
    /\ UNCHANGED <<input, offset, tokens, err, tree, drawables, max_depth, has_arrow, arrowSet,
                   opts, canvas, updates>>

\* tree.draw and update return (syntaxtree.js 163, 167)
Return ==
    /\ pc = "drawn"
    /\ pc' = "idle"
    /\ UNCHANGED <<input, offset, tokens, err, tree, drawables, max_depth, has_arrow, arrowSet,
                   opts, canvas, parse_error, updates>>

NextUpdate ==
    Update \/ TokenizeStep \/ TokenizeReturn \/ Validate \/ ParseValidated \/ BuildDrawables
        \/ Align \/ AutoSubscript \/ Position \/ Route \/ Render \/ Catch \/ Return

SpecUpdate == InitUpdate /\ [][NextUpdate]_vars

(***************************************************************************)
(* What the claims speak of.                                               *)
(***************************************************************************)
\* the nodes of a syntax tree, the tree itself first, in source order
RECURSIVE SyntaxNodes(_)
SyntaxNodes(node) ==
    <<node>> \o Concat([i \in 1..Len(ValuesOf(node)) |-> SyntaxNodes(node.values[i])])

\* the Value leaves of a syntax tree, left to right
SyntaxLeaves(node) == SelectSeq(SyntaxNodes(node), IsValue)

\* the drawables of a drawable tree, the tree itself first, left to right
RECURSIVE DrawableNodes(_)
DrawableNodes(drawable) ==
    <<drawable>> \o Concat([i \in 1..Len(drawable.children) |-> DrawableNodes(drawable.children[i])])

IsLeafDrawable(drawable) == drawable.is_leaf

DrawableLeaves(drawable) == SelectSeq(DrawableNodes(drawable), IsLeafDrawable)

\* opens minus closes, counted as the claim counts them
Balance(toks) ==
    Cardinality({i \in 1..Len(toks) : toks[i].type = "BRACKET_OPEN"})
    - Cardinality({i \in 1..Len(toks) : toks[i].type = "BRACKET_CLOSE"})

Wrapped(toks) ==
    /\ Len(toks) >= 1
    /\ toks[1].type = "BRACKET_OPEN"
    /\ toks[Len(toks)].type = "BRACKET_CLOSE"

UnbalancedMessage(toks) ==
    IF Balance(toks) > 0 THEN Error("bracket(s) open [", Balance(toks), "")
    ELSE Error("too many closed bracket(s) ]", -Balance(toks), "")

\* the phrase is one update gives to parse: validateTokens accepts it
Accepted(toks) == ValidateTokens(toks) = NoError

\* C1 (as claimed): every token sequence whose opens minus closes is not zero is
\* rejected by validateTokens with the over-open message when the difference is
\* positive and the over-close message when it is negative, N being its absolute value.
C1_AsClaimed ==
    (pc \in {"validated", "rejected"} /\ Balance(tokens) # 0)
        => (pc = "rejected" /\ err = UnbalancedMessage(tokens))

\* C1 (amended): every token sequence whose opens minus closes is not zero is rejected
\* by validateTokens: with 'Phrase too short' when it has fewer than 3 tokens, else with
\* 'Phrase must start with [ and end with ]' when it does not start with a bracket-open
\* and end with a bracket-close, and only else with the over-open / over-close message,
\* N being the absolute difference.
C1_RejectedInOrder ==
    (pc \in {"validated", "rejected"} /\ Balance(tokens) # 0)
        => /\ pc = "rejected"
           /\ err = IF Len(tokens) < 3 THEN Error("Phrase too short", 0, "")
                    ELSE IF ~Wrapped(tokens)
                    THEN Error("Phrase must start with [ and end with ]", 0, "")
                    ELSE UnbalancedMessage(tokens)

\* C1 witness: a phrase inside [ ... ] rejected for its two brackets left open
C1_Witness ==
    /\ pc = "rejected"
    /\ Wrapped(tokens)
    /\ Balance(tokens) = 2
    /\ err = Error("bracket(s) open [", 2, "")

\* /\{.*\}$/.test(label): the label ends with a brace-delimited case marker
EndsWithCaseMarker(label) ==
    \E p \in 1..Len(label) : IsCaseLabel(SubSeq(label, p, Len(label)))

\* C2 (as claimed, on the phrases update parses): after parse returns, no Value leaf of
\* the tree, child of a Node or of the Root, has a label that ends with a case marker {...}.
C2_NoTrailingCaseInLabels ==
    (pc = "parsed" /\ Accepted(tokens))
        => \A i \in 1..Len(SyntaxLeaves(tree)) :
               ~EndsWithCaseMarker(SyntaxLeaves(tree)[i].label)

\* C3 (as claimed, on the phrases update parses): after parse returns, no Node's values
\* holds a Value whose label begins with +, and what its features list holds are the
\* labels that begin with +.
C3_NoFeatureLeafAmongValues ==
    (pc = "parsed" /\ Accepted(tokens))
        => \A i \in 1..Len(SyntaxNodes(tree)) :
               LET node == SyntaxNodes(tree)[i]
               IN  node.type = "NODE"
                   => /\ \A j \in 1..Len(node.values) :
                            node.values[j].type = "VALUE" => ~IsFeatureLabel(node.values[j].label)
                      /\ \A j \in 1..Len(node.features) : IsFeatureLabel(node.features[j])

\* the phrase [A "..." {..}]: a node whose children are a quoted leaf and a bare case marker
IsLeafThenMarker(toks) ==
    /\ Len(toks) = 5
    /\ toks[1].type = "BRACKET_OPEN" /\ toks[2].type = "STRING"
    /\ toks[3].type = "QUOTED_STRING" /\ ~IsFeatureLabel(toks[3].value)
    /\ toks[4].type = "STRING" /\ IsCaseLabel(toks[4].value)
    /\ toks[5].type = "BRACKET_CLOSE"

\* C4 (as claimed, on the phrases update parses): a Value whose entire label is a case
\* marker {...} is never a child in the tree, and in [A "leaf" {marker}] the marker is
\* the caseFeature of the previous sibling, the leaf.
C4_BareMarkerGoesToPreviousSibling ==
    (pc = "parsed" /\ Accepted(tokens))
        => /\ \A i \in 1..Len(SyntaxLeaves(tree)) : ~IsCaseLabel(SyntaxLeaves(tree)[i].label)
           /\ IsLeafThenMarker(tokens)
                 => /\ Len(SyntaxLeaves(tree)) = 1
                    /\ SyntaxLeaves(tree)[1].caseFeature = tokens[4].value

\* the arrow directives of a syntax tree, leaf by leaf, in source order
Directives(node) ==
    Concat([i \in 1..Len(SyntaxLeaves(node)) |-> ArrowsOf(SyntaxLeaves(node)[i])])

IsArrowToken(t) == t.type \in ArrowTypes

\* the places (from 1) of the arrow operators in a token array, in source order
ArrowOps(toks) == SelectSeq([i \in 1..Len(toks) |-> i], LAMBDA i : IsArrowToken(toks[i]))

IsCommaToken(t) == t.type = "STRING" /\ t.value = <<",">>

\* C5 (as claimed, on the phrases update parses): the parsed tree has one directive per
\* arrow operator, in source order, with the operator's ends and dotted flag and the
\* number after it as target; its label is the string token after the number when that
\* is not the comma, and null when the number is followed by no string token or directly
\* by the comma that separates it from the next operator.
C5_OneDirectivePerOperator ==
    (pc = "parsed" /\ Accepted(tokens))
        => LET ops  == ArrowOps(tokens)
               dirs == Directives(tree)
           IN  /\ Len(dirs) = Len(ops)
               /\ \A j \in 1..Len(ops) :
                     LET i == ops[j]
                     IN  /\ dirs[j].ends = ArrowDirective(tokens[i].type, 0, Null).ends
                         /\ dirs[j].dotted = (tokens[i].type = "ARROW_DOTTED_TO")
                         /\ dirs[j].target = tokens[i + 1].value
                         /\ (~IsStringToken(tokens[i + 2])) => dirs[j].label = Null
                         /\ (IsStringToken(tokens[i + 2]) /\ ~IsCommaToken(tokens[i + 2]))
                               => dirs[j].label = tokens[i + 2].value
                         /\ (IsCommaToken(tokens[i + 2]) /\ IsArrowToken(tokens[i + 3]))
                               => dirs[j].label = Null

\* where (from 0) the first leaf of a token array starts: at the front, or after [A;
\* -1 when the array starts otherwise
FirstLeaf(toks) ==
    IF Len(toks) >= 1 /\ toks[1].type = "STRING" THEN 0
    ELSE IF Len(toks) >= 3 /\ toks[1].type = "BRACKET_OPEN" /\ toks[2].type = "STRING"
            /\ toks[3].type = "STRING" THEN 2
    ELSE -1

\* past a subscript or superscript at p, if there is one
AfterScript(toks, p) ==
    IF p + 1 < Len(toks) /\ IsPrefixToken(Tok(toks, p)) /\ IsStringToken(Tok(toks, p + 1))
    THEN p + 2 ELSE p

\* reading directives `op number [label] [,]` from p on, an arrow operator is met that
\* no number token follows
RECURSIVE ArrowWithoutNumber(_, _)
ArrowWithoutNumber(toks, p) ==
    IF p >= Len(toks) \/ ~IsArrowToken(Tok(toks, p)) THEN FALSE
    ELSE IF p + 1 >= Len(toks) \/ Tok(toks, p + 1).type # "NUMBER" THEN TRUE
    ELSE LET q  == p + 2
             q1 == IF q < Len(toks) /\ IsStringToken(Tok(toks, q)) /\ ~IsCommaToken(Tok(toks, q))
                   THEN q + 1 ELSE q
             q2 == IF q1 < Len(toks) /\ IsCommaToken(Tok(toks, q1)) THEN q1 + 1 ELSE q1
         IN  ArrowWithoutNumber(toks, q2)

\* C6 (as claimed): when an arrow operator that follows a leaf (directly, after its
\* subscript, after a previous directive or after a separating comma) is not followed by
\* a number token, be it the last token of the sequence, parse fails with
\* 'Expected column number after arrow'.
C6_ExpectedColumnNumber ==
    (/\ pc \in {"parsed", "parse_failed"}
     /\ FirstLeaf(tokens) >= 0
     /\ ArrowWithoutNumber(tokens, AfterScript(tokens, StringRunEnd(tokens, FirstLeaf(tokens)))))
        => (pc = "parse_failed" /\ err.msg = "Expected column number after arrow")

\* the tokens of a text when, at every offset, the rules are tried from the first one
\* on and the first that matches gives the token
RECURSIVE PriorityTokenize(_, _, _)
PriorityTokenize(inp, off, toks) ==
    LET rest == Substring(inp, off)
        RECURSIVE FirstRule(_)
        FirstRule(i) ==
            IF i > NumParsers THEN [ok |-> FALSE, tokens |-> toks]
            ELSE LET r == ParserAt(i, rest)
                 IN  IF r.err # NoError THEN [ok |-> FALSE, tokens |-> toks]
                     ELSE IF r.consumed > 0
                     THEN PriorityTokenize(inp, off + r.consumed,
                              IF r.token.type # "null" THEN Append(toks, r.token) ELSE toks)
                     ELSE FirstRule(i + 1)
    IN  IF off >= Len(inp) THEN [ok |-> TRUE, tokens |-> toks] ELSE FirstRule(1)

\* C7 (as claimed): the tokens tokenize returns are those of the priority order white
\* space, control character, arrow, number, unquoted string, quoted string applied at
\* each offset; so a token that starts at ->, <-, <> or .> is the arrow token, whatever
\* token precedes it.
C7_PriorityOrder ==
    pc = "tokenized"
        => /\ PriorityTokenize(input, 0, <<>>).ok
           /\ tokens = PriorityTokenize(input, 0, <<>>).tokens

QuotePlaces(s) == {i \in 1..Len(s) : s[i] = "\""}

OddQuotes(s) == Cardinality(QuotePlaces(s)) % 2 = 1

\* the texts between the 1st and 2nd quote, the 3rd and 4th quote, ...
RECURSIVE QuotedTexts(_)
QuotedTexts(s) ==
    IF Cardinality(QuotePlaces(s)) < 2 THEN <<>>
    ELSE LET i == CHOOSE a \in QuotePlaces(s) : \A b \in QuotePlaces(s) : a <= b
             j == CHOOSE a \in QuotePlaces(s) \ {i} : \A b \in QuotePlaces(s) \ {i} : a <= b
         IN  <<SubSeq(s, i + 1, j - 1)>> \o QuotedTexts(SubSeq(s, j + 1, Len(s)))

IsQuotedToken(t) == t.type = "QUOTED_STRING"

QuotedValues(toks) ==
    [i \in 1..Len(SelectSeq(toks, IsQuotedToken)) |-> SelectSeq(toks, IsQuotedToken)[i].value]

Unterminated == pc = "tokenize_failed" /\ err.msg = "Unterminated quoted string. Missing \" after"

\* C8: tokenize fails with 'Unterminated quoted string' exactly when the text holds an
\* odd number of double quotes, and then returns no tokens; when it returns, the values of
\* the quoted-string tokens are, in order, the texts between the paired quotes, verbatim.
C8_QuotedStrings ==
    /\ pc \in {"tokenized", "tokenize_failed"} => (Unterminated <=> OddQuotes(input))
    /\ pc = "tokenized" => QuotedValues(tokens) = QuotedTexts(input)

\* C8 witness: the text " "" fails at its third quote, after its first two gave a
\* quoted token that holds the white space between them
C8_Witness ==
    /\ Unterminated
    /\ Cardinality(QuotePlaces(input)) = 3
    /\ QuotedValues(tokens) = << <<" ">> >>

\* the directives of a leaf that name a leaf of the tree: 1 <= target <= n
Routable(leaf, n) ==
    SelectSeq(leaf.arrows, LAMBDA d : 1 <= d.target /\ d.target <= n)

\* the routed arrows the claim expects: for each leaf, left to right, and each of its
\* routable directives, in order, the leaf it starts on, the leaf it ends on, the directive
ExpectedArrows(root) ==
    LET leaves == DrawableLeaves(root)
        n      == Len(leaves)
    IN  Concat([i \in 1..n |->
                  [j \in 1..Len(Routable(leaves[i], n)) |->
                      [from      |-> leaves[i],
                       to        |-> leaves[Routable(leaves[i], n)[j].target],
                       directive |-> Routable(leaves[i], n)[j]]]])

\* C9: routing a positioned tree of n leaves gives one routed arrow for each directive
\* whose target k has 1 <= k <= n, ending on the anchor of the k-th leaf from the left and
\* starting on the anchor of its own leaf, and none for a directive with another k; the
\* routed arrows come leaf by leaf from the left and, within a leaf, in directive order.
C9_RoutedArrows ==
    pc = "routed"
        => LET expected == ExpectedArrows(drawables)
               arrows   == arrowSet.arrows
           IN  /\ Len(arrows) = Len(expected)
               /\ \A k \in 1..Len(expected) :
                     /\ arrows[k].to_x = GetDrawableCenter(expected[k].to)
                     /\ arrows[k].to_y = AnchorY(expected[k].to, opts.fontsize)
                     /\ arrows[k].from_x = GetDrawableCenter(expected[k].from)
                     /\ arrows[k].from_y = AnchorY(expected[k].from, opts.fontsize)
                     /\ arrows[k].ends_to = expected[k].directive.ends.to
                     /\ arrows[k].ends_from = expected[k].directive.ends.from
                     /\ arrows[k].dotted = expected[k].directive.dotted
                     /\ arrows[k].label = expected[k].directive.label

\* C9 witness: three leaves; the first has a directive to leaf 3, the third one to a
\* leaf that does not exist and one to leaf 1; two arrows are routed, one is dropped
C9_Witness ==
    /\ pc = "routed"
    /\ Len(DrawableLeaves(drawables)) = 3
    /\ Len(DrawableLeaves(drawables)[1].arrows) = 1
    /\ DrawableLeaves(drawables)[1].arrows[1].target = 3
    /\ Len(DrawableLeaves(drawables)[3].arrows) = 2
    /\ DrawableLeaves(drawables)[3].arrows[1].target = 4
    /\ DrawableLeaves(drawables)[3].arrows[2].target = 1
    /\ Len(arrowSet.arrows) = 2
    /\ arrowSet.arrows[1].to_x = GetDrawableCenter(DrawableLeaves(drawables)[3])
    /\ arrowSet.arrows[2].to_x = GetDrawableCenter(DrawableLeaves(drawables)[1])
    /\ arrowSet.arrows[2].from_x = GetDrawableCenter(DrawableLeaves(drawables)[3])

\* C10 (as claimed): once layout has built the drawables, the drawable leaf of every
\* Value with a caseFeature carries that caseFeature, and an arrow that starts on such a
\* leaf starts below its label lines and its case line.
C10_CaseFeatureCarried ==
    pc \in {"built", "aligned", "subscripted", "positioned", "routed"}
        => \A i \in 1..Len(SyntaxLeaves(tree)) :
               Truthy(SyntaxLeaves(tree)[i].caseFeature)
                   => LET leaf == DrawableLeaves(drawables)[i]
                      IN  /\ leaf.caseFeature = SyntaxLeaves(tree)[i].caseFeature
                          /\ pc = "routed"
                                => \A k \in 1..Len(arrowSet.arrows) :
                                       arrowSet.arrows[k].from_x = GetDrawableCenter(leaf)
                                           => arrowSet.arrows[k].from_y
                                                = leaf.top
                                                  + (LabelLines(leaf.label) * opts.fontsize * 11 * Px) \div 10
                                                  + 2 * Px
                                                  + (opts.fontsize * 7 * Px) \div 10 + 2 * Px

\* the phases of Tree.draw after which the drawables exist
Built == pc \in {"built", "aligned", "subscripted", "positioned", "routed", "drawn"}

Positioned == pc \in {"positioned", "routed", "drawn"}

ChildWidths(drawable) == [i \in 1..Len(drawable.children) |-> drawable.children[i].width]

Aligned == pc \in {"aligned", "subscripted", "positioned", "routed", "drawn"}

\* the largest depth among the drawables of a tree
DeepestDepth(root) ==
    LET nodes == DrawableNodes(root)
    IN  CHOOSE m \in {nodes[i].depth : i \in 1..Len(nodes)} :
            \A i \in 1..Len(nodes) : nodes[i].depth <= m

\* C12 (as claimed): with alignment 1 or 2, after the alignment adjustment the depth of
\* every leaf is the largest depth among all the nodes of the drawable tree.
C12_LeavesAtMaxDepth ==
    (Aligned /\ opts.alignment > 0)
        => LET leaves  == DrawableLeaves(drawables)
               deepest == DeepestDepth(drawables)
           IN  \A i \in 1..Len(leaves) : leaves[i].depth = deepest

\* the drawables of a tree that are not leaves and have children
Parents(root) ==
    SelectSeq(DrawableNodes(root), LAMBDA d : ~d.is_leaf /\ Len(d.children) > 0)

\* the smallest depth among the children of a drawable that has children
MinChildDepth(drawable) ==
    CHOOSE m \in {drawable.children[i].depth : i \in 1..Len(drawable.children)} :
        \A i \in 1..Len(drawable.children) : m <= drawable.children[i].depth

\* C13 (as claimed): with alignment 2, after the alignment adjustment the depth of every
\* node that has children is strictly less than the smallest depth of its children, also
\* in trees that hold bracket nodes without children.
C13_ParentsAboveChildren ==
    (Aligned /\ opts.alignment > 1)
        => LET parents == Parents(drawables)
           IN  \A i \in 1..Len(parents) : parents[i].depth < MinChildDepth(parents[i])

\* every bracket node of the tree has children: no depth is Math.min() of nothing
NoChildlessNode(root) ==
    LET nodes == DrawableNodes(root)
    IN  \A i \in 1..Len(nodes) : nodes[i].is_leaf \/ Len(nodes[i].children) > 0

\* C14 (as claimed, on trees whose bracket nodes all have children): with alignment 2,
\* after the alignment adjustment the depth of every node that has children is the
\* smallest depth of its children minus 1, also when the Root holds several top-level
\* nodes.
C14_ParentsJustAboveChildren ==
    (Aligned /\ opts.alignment > 1 /\ NoChildlessNode(drawables))
        => LET parents == Parents(drawables)
           IN  \A i \in 1..Len(parents) : parents[i].depth = MinChildDepth(parents[i]) - 1

\* the nodes, by their place in tree traversal order, that are not leaves and carry no
\* subscript or superscript of their own in the syntax tree
PlainNodes(root) ==
    LET nodes == SyntaxNodes(root)
    IN  {i \in 1..Len(nodes) :
            /\ ~IsValue(nodes[i])
            /\ ~Truthy(SubscriptOf(nodes[i]))
            /\ ~Truthy(SuperscriptOf(nodes[i]))}

\* the subscript the claim gives the node at place i: its count among the plain nodes of
\* its label up to i when it is plain and they are two or more, else the subscript it had
ClaimedSubscript(root, i) ==
    LET nodes   == SyntaxNodes(root)
        sharers == {j \in PlainNodes(root) : nodes[j].label = nodes[i].label}
    IN  IF i \in PlainNodes(root) /\ Cardinality(sharers) >= 2
        THEN NumberToString(Cardinality({j \in sharers : j <= i}))
        ELSE SubscriptOf(nodes[i])

\* C15 (as claimed): with auto-subscript on, after calculateAutoSubscript a node that is
\* not a leaf has an automatic subscript exactly when it carries no subscript or
\* superscript of its own and shares its label with another such node; the subscripts of
\* one label are 1, 2, ... in tree traversal order; every other node, and every leaf,
\* keeps the subscript it had.
C15_AutoSubscripts ==
    (pc = "subscripted" /\ opts.subscript)
        => LET after == DrawableNodes(drawables)
           IN  \A i \in 1..Len(after) : after[i].subscript = ClaimedSubscript(tree, i)

\* C16: calculateAutoSubscript run again on the tree it has subscripted changes nothing:
\* no node with a subscript is given another and no further node gains one.
C16_AutoSubscriptIdempotent ==
    (pc = "subscripted" /\ opts.subscript)
        => CalculateAutoSubscript(drawables) = drawables

\* C16 witness: the first run gave two nodes of one label the subscripts 1 and 2, beside
\* a node of that label that has a superscript and none that has a subscript
C16_Witness ==
    /\ pc = "subscripted" /\ opts.subscript
    /\ LET after  == DrawableNodes(drawables)
           before == SyntaxNodes(tree)
       IN  /\ \E i, j \in 1..Len(after) :
                 /\ i < j /\ after[i].label = after[j].label
                 /\ ~Truthy(SubscriptOf(before[i])) /\ ~Truthy(SubscriptOf(before[j]))
                 /\ after[i].subscript = <<"1">> /\ after[j].subscript = <<"2">>
           /\ \E k \in 1..Len(after) :
                 Truthy(after[k].superscript) /\ ~Truthy(after[k].subscript)


\* the largest top of the leaves whose left edge lies between two left edges, 0 without one
MaxTopBetween(root, a, b) ==
    LET leaves == DrawableLeaves(root)
        RECURSIVE Largest(_, _)
        Largest(i, m) ==
            IF i > Len(leaves) THEN m
            ELSE Largest(i + 1,
                         IF MinOf(a, b) <= leaves[i].left /\ leaves[i].left <= MaxOf(a, b)
                         THEN MaxOf(m, leaves[i].top) ELSE m)
    IN  Largest(1, 0)

\* C18 (as claimed): for every routed arrow, bottom is 1.4 times the largest top of the
\* leaves whose left edge lies between the left edges of its source and its target,
\* and bottom lies at or below both anchors: bottom >= from_y and bottom >= to_y, for
\* every font size, vertical scale, leaf depth and number of label lines.
C18_BottomBelowAnchors ==
    pc = "routed"
        => LET expected == ExpectedArrows(drawables)
               arrows   == arrowSet.arrows
           IN  \A k \in 1..Len(arrows) :
                  /\ arrows[k].bottom
                        = (14 * MaxTopBetween(drawables, expected[k].from.left,
                                              expected[k].to.left)) \div 10
                  /\ arrows[k].bottom >= arrows[k].from_y
                  /\ arrows[k].bottom >= arrows[k].to_y

\* the first half of C18 alone: bottom is 1.4 times the largest top spanned
C18_BottomIsScaledTop ==
    pc = "routed"
        => LET expected == ExpectedArrows(drawables)
               arrows   == arrowSet.arrows
           IN  \A k \in 1..Len(arrows) :
                  arrows[k].bottom
                    = (14 * MaxTopBetween(drawables, expected[k].from.left,
                                          expected[k].to.left)) \div 10


\* the left edge the children of a drawable start from: its own, 0 under the Root
LeftEdge(drawable) == IF drawable.depth = -1 THEN 0 ELSE drawable.left

\* C19: after the position phase, the first child of every node has the node's own left
\* (0 under the Root) and every further child has the left of the sibling before it
\* plus that sibling's width; so the extents [left, left + width] of siblings do not
\* overlap, the extent of every child lies inside its parent's, and all nodes of equal
\* depth have the same top.
C19_PositionsChained ==
    Positioned
        => LET nodes == DrawableNodes(drawables)
           IN  /\ \A i \in 1..Len(nodes) :
                     LET kids == nodes[i].children
                     IN  \A k \in 1..Len(kids) :
                            /\ kids[k].left = IF k = 1 THEN LeftEdge(nodes[i])
                                              ELSE kids[k - 1].left + kids[k - 1].width
                            /\ \A j \in 1..(k - 1) :
                                  kids[j].left + kids[j].width <= kids[k].left
                            /\ LeftEdge(nodes[i]) <= kids[k].left
                            /\ kids[k].left + kids[k].width
                                  <= LeftEdge(nodes[i]) + nodes[i].width
               /\ \A i, j \in 2..Len(nodes) :
                     nodes[i].depth = nodes[j].depth => nodes[i].top = nodes[j].top

\* C19 witness: a positioned tree in which a node that does not start at 0 has two
\* children, the first at the node's left and the second one width further, and in
\* which two nodes of one depth under different parents have the same top
C19_Witness ==
    /\ Positioned
    /\ LET nodes == DrawableNodes(drawables)
       IN  /\ \E i \in 2..Len(nodes) :
                 /\ nodes[i].left > 0
                 /\ Len(nodes[i].children) >= 2
                 /\ nodes[i].children[1].left = nodes[i].left
                 /\ nodes[i].children[2].left
                       = nodes[i].left + nodes[i].children[1].width
                 /\ nodes[i].children[1].width > 0
           /\ \E i, j \in 2..Len(nodes) :
                 /\ i # j
                 /\ nodes[i].depth = nodes[j].depth
                 /\ nodes[i].depth >= 1
                 /\ nodes[i].left # nodes[j].left
                 /\ nodes[i].top = nodes[j].top


\* the distance between two intervals [a, a + w] and [b, b + v], negative when they overlap
Gap(a, w, b, v) == MaxOf(a - (b + v), b - (a + w))

\* two label boxes, padded, intersect: they are no more than the padding apart in x and in y
PaddedBoxesIntersect(r, s) ==
    /\ Gap(r.x, r.width, s.x, s.width) <= Padding
    /\ Gap(r.y, r.height, s.y, s.height) <= Padding

\* the indexes of the arrows that have a label, in emission order
LabelledArrows(arrows) ==
    SelectSeq([i \in 1..Len(arrows) |-> i], LAMBDA i : arrows[i].label # Null)

\* C17: after all arrows of a render are drawn, the padded label boxes of two labelled
\* arrows i < j do not intersect unless the placement loop of arrow j used all 15 shift
\* attempts; every label is shifted straight down from the midpoint of its curve by the
\* fixed increment at most 15 times; and the placed boxes are those of the labelled
\* arrows in emission order.
C17_LabelsApartOrExhausted ==
    pc = "drawn"
        => LET labels == canvas.labelRects
               arrows == canvas.arrows
           IN  /\ \A j \in 1..Len(labels) : \A i \in 1..(j - 1) :
                     PaddedBoxesIntersect(labels[i], labels[j]) => labels[j].tries = 15
               /\ \A j \in 1..Len(labels) :
                     /\ labels[j].tries \in 0..15
                     /\ labels[j].x = LabelRect(arrows[labels[j].idx], opts.fontsize).x
                     /\ labels[j].y = LabelRect(arrows[labels[j].idx], opts.fontsize).y
                                        + labels[j].tries * LabelYOffset(opts.fontsize)
               /\ [j \in 1..Len(labels) |-> labels[j].idx] = LabelledArrows(arrows)

\* C17 witness: nine labels are placed below one another; the second was shifted past
\* the first and meets no earlier box, the ninth used all 15 shifts and still meets
\* the eighth; an arrow without a label was drawn before them
C17_Witness ==
    /\ pc = "drawn"
    /\ Len(canvas.labelRects) = 9
    /\ Len(canvas.arrows) = 10
    /\ canvas.labelRects[1].idx = 2
    /\ canvas.labelRects[2].tries \in 1..14
    /\ ~PaddedBoxesIntersect(canvas.labelRects[1], canvas.labelRects[2])
    /\ canvas.labelRects[9].tries = 15
    /\ PaddedBoxesIntersect(canvas.labelRects[8], canvas.labelRects[9])


\* tokenize on a whole text, from an offset on: the tokens, or the error it throws
RECURSIVE TokenizeFrom(_, _, _)
TokenizeFrom(inp, off, toks) ==
    IF off >= Len(inp) THEN [ok |-> TRUE, tokens |-> toks]
    ELSE LET r == RunParsers(inp, off, toks, 1)
         IN  IF r.err # NoError \/ r.offset = off THEN [ok |-> FALSE, tokens |-> toks]
             ELSE TokenizeFrom(inp, r.offset, r.tokens)

\* tokenize, validateTokens and parse all succeed on a text
PipelineSucceeds(text) ==
    /\ TokenizeFrom(text, 0, <<>>).ok
    /\ ValidateTokens(TokenizeFrom(text, 0, <<>>).tokens) = NoError
    /\ Parse(TokenizeFrom(text, 0, <<>>).tokens).ok

\* draw is running or has run in this run of update
Drawing == pc \in {"built", "aligned", "subscripted", "positioned", "routed", "drawn"}

\* C20: in a run of update, tree.draw is called only after tokenize, validateTokens and
\* parse have succeeded, one after the other, on the text of the run; when one of
\* them throws, draw is not called in that run, the canvas stays as the last render
\* left it, and the error is put into the parse-error element.
C20_DrawOnlyAfterSuccess ==
    [][/\ (Drawing' /\ ~Drawing)
            => /\ pc = "parsed"
               /\ PipelineSucceeds(input)
               /\ tokens = TokenizeFrom(input, 0, <<>>).tokens
               /\ tree = Parse(tokens).node
       /\ pc' = "parsed" => pc = "validated"
       /\ pc' = "validated" => pc = "tokenized"
       /\ pc' = "tokenized" => pc = "tokenize"
       /\ (pc' = "idle" /\ ~PipelineSucceeds(input))
            => /\ pc \in {"tokenize_failed", "rejected", "parse_failed"}
               /\ err # NoError
               /\ parse_error' = err
       /\ canvas' # canvas => (pc = "routed" /\ PipelineSucceeds(input))
       /\ (Drawing \/ Drawing') => PipelineSucceeds(input)]_vars

\* C20 witness: the first run of update drew a phrase, the second one threw: its error
\* is in the parse-error element and the canvas still shows the drawing of the first
C20_Witness ==
    /\ updates = 2
    /\ pc = "idle"
    /\ ~PipelineSucceeds(input)
    /\ parse_error # NoError
    /\ canvas # Blank
    /\ Len(canvas.labelRects) = 1


\* tokenize has returned or thrown
TokenizeDone == pc \in {"tokenized", "tokenize_failed"}

\* C24: every iteration of the main loop of tokenize consumes at least one character or
\* throws the unterminated-quoted-string error; so the unconsumed-input error ('Unable
\* to parse') is never raised, and tokenize always terminates.
C24_TokenizeProgress ==
    /\ [][(pc = "tokenize" /\ offset < Len(input))
            => \/ offset' > offset /\ pc' = "tokenize"
               \/ /\ pc' = "tokenize_failed"
                  /\ err'.msg = "Unterminated quoted string. Missing \" after"]_vars
    /\ [](err.msg # "Unable to parse")
    /\ <>TokenizeDone

\* C24 witness: tokenize has returned after consuming a text of four characters that
\* starts with a blank, holds a quoted string and gave two tokens
C24_Witness ==
    /\ pc = "tokenized"
    /\ Len(input) = 4
    /\ offset = 4
    /\ input[1] = " "
    /\ Len(tokens) = 2
    /\ tokens[2].type = "QUOTED_STRING"

\* the messages of the errors parse throws by its own `throw` statements
\* (parser.js 34, 38, 49, 94, 122, 149, 205)
GrammarErrors ==
    {"Missing label after [", "Expected label string after [",
     "Expected subscript string after _ or ^", "Expected subscript string after _/^",
     "Expected column number after arrow", "Missing closing bracket ] ...", "Unexpected"}

\* C21 (as claimed): on every token array, validated or not, parse returns a Root or
\* throws one of its grammar errors; it never reads a token at an index >= tokens.length,
\* also not after a separating comma or an arrow operator that are the last tokens.
C21_ParseWithinTokens ==
    /\ pc = "parsed" => tree.type = "ROOT"
    /\ pc = "parse_failed" => err.msg \in GrammarErrors

\* C22 (as claimed): when the position phase reports an arrow directive on some leaf
\* (has_arrow), the ArrowSet made for the same tree holds at least one routed arrow and
\* its maxBottom is above zero, also when no directive's target resolves to a leaf.
C22_HasArrowMeansRouted ==
    (pc \in {"routed", "drawn"} /\ has_arrow)
        => (Len(arrowSet.arrows) >= 1 /\ arrowSet.maxBottom > 0)

\* the index of the first closing bracket that has no opening bracket before it left to
\* close, -1 when there is none
FirstSurplusClose(toks) ==
    LET surplus == {i \in 1..Len(toks) : Balance(SubSeq(toks, 1, i)) < 0}
    IN  IF surplus = {} THEN -1
        ELSE (CHOOSE i \in surplus : \A j \in surplus : i <= j) - 1

\* C23: on a token array that validateTokens accepted, parse never fails with 'Missing
\* closing bracket' nor with 'Missing label after ['; a closing bracket with nothing to
\* close makes parse fail, and when the failure is the unexpected closing bracket, it is
\* reported at that bracket, before the last token.
C23_ValidatedNeverUnterminated ==
    [][pc = "validated"
         => /\ pc' = "parse_failed"
                  => err'.msg \notin {"Missing closing bracket ] ...", "Missing label after ["}
            /\ FirstSurplusClose(tokens) >= 0 => pc' = "parse_failed"
            /\ (pc' = "parse_failed" /\ err'.msg = "Unexpected" /\ err'.what = "BRACKET_CLOSE")
                  => /\ err'.n = FirstSurplusClose(tokens)
                     /\ err'.n < Len(tokens) - 1]_vars

\* C23 witness: parse has failed on an accepted token array of seven tokens with an
\* unexpected closing bracket at index 3, two opening brackets coming after it
C23_Witness ==
    /\ pc = "parse_failed"
    /\ Accepted(tokens)
    /\ Len(tokens) = 7
    /\ FirstSurplusClose(tokens) = 3
    /\ tokens[5].type = "BRACKET_OPEN"
    /\ tokens[6].type = "BRACKET_OPEN"
    /\ err = Error("Unexpected", 3, "BRACKET_CLOSE")

====
